---- MODULE Spec2Model ----
(***************************************************************************)
(* Moccarduino: the event-consumer chain (time_series.hpp), the virtual    *)
(* pin and the emulator core (emulator.hpp) and the simulation controller  *)
(* (simulation.hpp), as state machines.                                     *)
(*                                                                         *)
(* Every call that can throw is modelled as an operator that returns the   *)
(* state the objects are left in together with err: "" when the call       *)
(* returned, otherwise the kind of the exception that left it.             *)
(***************************************************************************)
EXTENDS Integers, Sequences, FiniteSets, TLC

\* ------------------------------------------------------------- constants

LOW == 0
HIGH == 1
\* the pins of the 7-segment display of the funshield
latch_pin == 4
clock_pin == 7
data_pin == 8
INPUT == 0
OUTPUT == 1
UNDEFINED == -1
LSBFIRST == 0
MSBFIRST == 1

mPinReadDelay == 20
mPinWriteDelay == 20
mPinSetModeDelay == 100

\* std::runtime_error("... violates causality.")
Causality == "causality"
\* std::runtime_error("Invariant breached! ...")
Breach == "invariant"
\* ArduinoEmulatorException
Violation == "violation"
\* std::runtime_error of registerPinInput
Runtime == "runtime"
OK == ""

\* ---------------------------------------------------------------- bounds

\* largest logical time used as the argument of a direct consumer call
MaxT == 2
\* number of addEvent / addFutureEvent calls made on the stand-alone chain
MaxAdds == 3

\* number of enqueuePinValueChange calls
MaxSched == 2
\* number of calls the tested program makes
MaxCalls == 3
\* number of methods disabled at the same time
MaxDisabled == 2
\* number of calls the tested program makes while methods are disabled
MaxGateCalls == 2

\* number of enqueueSerialInputEvent calls
MaxSerial == 2
\* number of invocations of loop() by the drivers
MaxIters == 2
\* number of API calls made by the bodies of loop()
MaxRunCalls == 1
\* largest count passed to runMultipleLoops
MaxCount == 2
\* largest period passed to runLoopsForPeriod
MaxPeriod == 2

\* largest logical time of a pin event handed to the 7-segment display
MaxSegT == 2
\* number of pin events handed to the 7-segment display
MaxSegEvents == 5
\* largest time of an event and of a range end in a comparison
MaxCmpT == 3
\* number of events added to each of the two series compared
MaxCmpEvents == 2
\* number of events added to the series that is searched
MaxHay == 4
\* number of values of the sequence searched for
MaxNeedle == 3
\* largest logical time passed to a forked consumer and its series
MaxForkT == 1
\* number of events stored in a series at a forked consumer
MaxForkEvents == 1
\* number of bits of the bit array that takes every call
BaN == 9
\* number of single bits pushed into a short shift register
MaxPushes == 5
\* number of bits pushed word by word into a shift register
MaxWordPushes == 32
\* largest logical time passed to a chain of filters
MaxPipeT == 5
\* number of addEvent calls made on a chain of filters
MaxPipeFeed == 3
\* largest period passed to runLoopsForPeriod when it runs alone
MaxLongPeriod == 3
\* largest logical time passed to a filter
MaxLedT == 6
\* number of addEvent calls made on a filter
MaxFeed == 3

Values == {0, 1}
PinIds == {1, 2}
Wirings == {INPUT, OUTPUT}
Modes == {INPUT, OUTPUT, 2}
EnqueueDelays == {0, 20}
Delays == {0, 20}
\* "a" and "bc"
SerialStrings == {<<97>>, <<98, 99>>}
SerialDelays == {0, 1000}
LoopDelays == {0, 1}
Millis == {1}
\* the LED states of a display of two LEDs
LedStates == SUBSET {0, 1}
\* timeWindow and threshold of the demultiplexers
DemuxParams == {<<2, 1>>, <<3, 2>>}
\* DemultiplexingTest: the time of the first event of the second phase and
\* the time of the final advanceTime, as the test has them (ts starts at 1
\* and each round of its loops adds two events) and as one microsecond
\* earlier
TestPhases == {<<1001, 2001>>, <<1000, 2000>>}
\* the pins of the events handed to the display; 5 is not a pin of it
SegPins == {data_pin, clock_pin, latch_pin, 5}
\* contents of the shift register, as <<digit-select byte, glyph byte>>
SegContents == {<<0, 0>>, <<1, 249>>, <<10, 164>>, <<255, 6>>}
\* the event times of the two series of TimeSeriesCompareTest "steady
\* delayed 4x50" and the end of its range
CmpTestTimes == <<(<<100, 300, 500, 800>>), (<<150, 350, 550, 850>>), 1000>>
\* the values of the events of the series searched and searched for
FindValues == {10, 20, 30}
\* the haystack and the needle of the last case of
\* TimeSeriesFindSelectedSubseqTest
FindTestValues ==
    <<(<<10, 0, 10, 20, 20, 30, 31, 30, 40, 70, 40>>), (<<10, 20, 30, 40>>)>>
\* the consumers that can be attached as the next consumer of the forked
\* consumer, and as its sprout consumer
NextNames == {"next1", "next2"}
SproutNames == {"sprout1"}
\* the widths of std::uint8_t and std::uint32_t
BaWidths == {8, 32}
\* "std::uint32_t magic = 0xdeadbeef & 0x3fffffff" of BitArrayTest
BaMagic == 514703087
\* the values, offsets and counts passed to BitArray::set and BitArray::get
BaInputs == {90, 165, BaMagic}
BaOffsets == {0, 3, 8, 9, 16, 24}
BaCounts == {3, 8, 9, 32}
\* the sizes of the shift registers that take single bits, and of those
\* that take words
ShortRegSizes == {0, 1, 2, 3}
WordRegSizes == {8, 16, 32}
\* the words pushed, each with the width of its type; 0xdead and then
\* 0xbeef are the bits of the 0xdeadbeef of ShiftRegisterTest
RegWords == {<<8, 165>>, <<8, 60>>, <<16, 57005>>, <<16, 48879>>}
\* the glyphs put on the display one by one: the ten digits, the space, the
\* dash, the letter h, a 2 and a space with the decimal dot, and a glyph of
\* no table
NumGlyphs ==
    {192, 249, 164, 176, 153, 146, 130, 248, 128, 144, 255, 191, 137, 36,
     127, 190}
\* the numbers passed to createNum
NumRange == ((0 - 999)..(0 - 1)) \cup (1..9999)
\* the decimalDot passed to createNum; DIGITS stands for the default
\* ~(std::size_t)0, which is the index of no digit
NumDots == {2, 4}
\* the glyph bytes and the digit-select bytes shifted out to the display
ShGlyphs == 0..255
ShMasks == (0..15) \cup {16, 128, 165, 240, 255}
\* timeWindow of the aggregators
AggrParams == {2, 3}

\* ------------------------------------------------- consumers (pure part)

Res(s, err) == [s |-> s, err |-> err]

\* F(x), with the parameter of F naming the value of x
With(x, F(_)) == CHOOSE out \in {F(v) : v \in {x}} : TRUE

\* EventConsumer with mNextConsumer == nullptr
NoConsumer == [kind |-> "none"]

\* TimeSeries<VALUE>() : mNextConsumer(nullptr), mLastTime(0), mEvents()
NewTimeSeries == [kind |-> "ts", mEvents |-> <<>>, mLastTime |-> 0]

\* FutureTimeSeries<VALUE>() : ..., mLastConsumed(0)
\* a stored event carries id, the number of the call that stored it; the
\* code has no such field and no operation reads it
NewFutureTimeSeries ==
    [kind |-> "fts", mEvents |-> <<>>, mLastTime |-> 0, mLastConsumed |-> 0]

\* TimeSeries::doAddEvent, reached through EventConsumer::addEvent
TsAddEvent(ts, time, value) ==
    IF time < ts.mLastTime THEN Res(ts, Causality)
    ELSE IF ts.mEvents # <<>> /\ ts.mEvents[Len(ts.mEvents)].time > time
         THEN Res(ts, Causality)
    ELSE Res([ts EXCEPT !.mEvents = Append(@, [time |-> time, value |-> value]),
                        !.mLastTime = time], OK)

\* EventConsumer::advanceTime on a TimeSeries
TsAdvanceTime(ts, time) ==
    IF time < ts.mLastTime THEN Res(ts, Causality)
    ELSE Res([ts EXCEPT !.mLastTime = time], OK)

\* EventConsumer::clear on a TimeSeries (TimeSeries::doClear)
TsClear(ts) == Res([ts EXCEPT !.mEvents = <<>>], OK)

\* ArduinoPin::doAddEvent, reached through EventConsumer::addEvent
PinAddEvent(p, time, state) ==
    IF time < p.mLastTime THEN Res(p, Causality)
    ELSE LET q == IF p.pin = state.pin THEN [p EXCEPT !.value = state.value] ELSE p
         IN With(IF q.next.kind = "ts" THEN TsAddEvent(q.next, time, state)
                 ELSE Res(q.next, OK), LAMBDA r :
                IF r.err # OK THEN Res([q EXCEPT !.next = r.s], r.err)
                ELSE Res([q EXCEPT !.next = r.s, !.mLastTime = time], OK))

\* EventConsumer::advanceTime on an ArduinoPin
PinAdvanceTime(p, time) ==
    IF time < p.mLastTime THEN Res(p, Causality)
    ELSE With(IF p.next.kind = "ts" THEN TsAdvanceTime(p.next, time)
              ELSE Res(p.next, OK), LAMBDA r :
             IF r.err # OK THEN Res([p EXCEPT !.next = r.s], r.err)
             ELSE Res([p EXCEPT !.next = r.s, !.mLastTime = time], OK))

\* EventConsumer::clear on an ArduinoPin
PinClear(p) ==
    IF p.next.kind = "ts" THEN Res([p EXCEPT !.next = TsClear(p.next).s], OK)
    ELSE Res(p, OK)

\* ------------------------------------------- the filters of LED states

\* a BitArray<LEDS> of LED states is modelled by the set of the LEDs that
\* are ON (the bits that are 0): BitArray(OFF) is {}, and operator== is =

\* nextAddEvent, nextAdvanceTime and nextClear of EventConsumer, defined
\* below for every kind of consumer: the next consumer of a filter is a
\* time series or another filter
RECURSIVE NextAddEvent(_, _, _)
RECURSIVE NextAdvanceTime(_, _)
RECURSIVE NextClear(_)

\* LedsEventsDemultiplexer<LEDS>(timeWindow, threshold), with next what
\* attachNextConsumer has stored
NewDemultiplexer(LEDS, timeWindow, threshold, next) ==
    [kind |-> "demux", mTimeWindow |-> timeWindow, mThreshold |-> threshold,
     mNextMarker |-> 0, mLastState |-> {}, mLastDemuxedState |-> {},
     mActiveTimes |-> [i \in 0..(LEDS - 1) |-> 0], mLastTime |-> 0,
     next |-> next]

DemuxState_Above(d) ==
    {i \in DOMAIN d.mActiveTimes : d.mActiveTimes[i] > d.mThreshold}

\* LedsEventsDemultiplexer::demuxState: the state it returns
DemuxState(d) ==
    {i \in DOMAIN d.mActiveTimes : d.mActiveTimes[i] >= d.mThreshold}

AccumulateActiveTimes_All(d, dt) ==
    [d EXCEPT !.mActiveTimes = [i \in DOMAIN @ |-> @[i] + dt]]

\* LedsEventsDemultiplexer::accumulateActiveTimes
AccumulateActiveTimes(d, dt) ==
    [d EXCEPT !.mActiveTimes =
        [i \in DOMAIN @ |-> IF i \in d.mLastState THEN @[i] + dt ELSE @[i]]]

\* isWindowOpen of both filters
IsWindowOpen(d) == d.mLastTime < d.mNextMarker

DemuxShiftMarker_Twice(marker, timeWindow) == marker + 2 * timeWindow

\* "mNextMarker += mTimeWindow" of the demultiplexer
DemuxShiftMarker(marker, timeWindow) == marker + timeWindow

\* the first block of LedsEventsDemultiplexer::updateOpenedWindow, entered
\* with time >= mNextMarker: the opened window is closed
DemuxCloseWindow(d) ==
    With(AccumulateActiveTimes(d, d.mNextMarker - d.mLastTime), LAMBDA acc :
    With(DemuxState(acc), LAMBDA demuxedState :
    With([acc EXCEPT !.mLastTime = d.mNextMarker,
                     !.mActiveTimes = [i \in DOMAIN @ |-> 0]], LAMBDA c :
        IF c.mLastDemuxedState # demuxedState
        THEN With(NextAddEvent(c.next, c.mNextMarker, demuxedState), LAMBDA r :
                 IF r.err # OK
                 THEN Res([c EXCEPT !.mLastDemuxedState = demuxedState,
                                    !.next = r.s], r.err)
                 ELSE Res([c EXCEPT !.mLastDemuxedState = demuxedState,
                                    !.next = r.s,
                                    !.mNextMarker =
                                        DemuxShiftMarker(@, c.mTimeWindow)],
                          OK))
        ELSE With(NextAdvanceTime(c.next, c.mNextMarker), LAMBDA r :
                 IF r.err # OK THEN Res([c EXCEPT !.next = r.s], r.err)
                 ELSE IF c.mLastDemuxedState # c.mLastState
                 THEN Res([c EXCEPT !.next = r.s,
                                    !.mNextMarker =
                                        DemuxShiftMarker(@, c.mTimeWindow)],
                          OK)
                 ELSE Res([c EXCEPT !.next = r.s], OK)))))

\* LedsEventsDemultiplexer::updateOpenedWindow
DemuxUpdateOpenedWindow(d, time) ==
    IF ~IsWindowOpen(d) THEN Res(d, OK)
    ELSE With(IF time >= d.mNextMarker THEN DemuxCloseWindow(d)
              ELSE Res(d, OK), LAMBDA r :
             IF r.err # OK THEN r
             ELSE IF time < r.s.mNextMarker
             THEN Res(AccumulateActiveTimes(r.s, time - r.s.mLastTime), OK)
             ELSE r)

\* do { updateOpenedWindow(time); } while (isWindowOpen() && time >=
\* mNextMarker);
RECURSIVE DemuxUpdateLoop(_, _)
DemuxUpdateLoop(d, time) ==
    With(DemuxUpdateOpenedWindow(d, time), LAMBDA r :
        IF r.err = OK /\ IsWindowOpen(r.s) /\ time >= r.s.mNextMarker
        THEN DemuxUpdateLoop(r.s, time)
        ELSE r)

\* EventConsumer::addEvent on a demultiplexer
\* (LedsEventsDemultiplexer::doAddEvent)
DemuxAddEvent(d, time, state) ==
    IF time < d.mLastTime THEN Res(d, Causality)
    ELSE With(DemuxUpdateLoop(d, time), LAMBDA r :
         IF r.err # OK THEN r
         ELSE With([r.s EXCEPT !.mLastState = state], LAMBDA u :
              IF ~IsWindowOpen(u)
              THEN Res([u EXCEPT !.mNextMarker = time + u.mTimeWindow,
                                 !.mLastTime = time], OK)
              ELSE Res([u EXCEPT !.mLastTime = time], OK)))

\* EventConsumer::advanceTime on a demultiplexer
\* (LedsEventsDemultiplexer::doAdvanceTime)
DemuxAdvanceTime(d, time) ==
    IF time < d.mLastTime THEN Res(d, Causality)
    ELSE With(DemuxUpdateLoop(d, time), LAMBDA r :
         IF r.err # OK THEN r
         ELSE IF ~IsWindowOpen(r.s)
         THEN With(NextAdvanceTime(r.s.next, time), LAMBDA n :
                  IF n.err # OK THEN Res([r.s EXCEPT !.next = n.s], n.err)
                  ELSE Res([r.s EXCEPT !.next = n.s, !.mLastTime = time], OK))
         ELSE Res([r.s EXCEPT !.mLastTime = time], OK))

\* EventConsumer::clear on a demultiplexer (LedsEventsDemultiplexer::doClear)
DemuxClear(d) ==
    Res([d EXCEPT !.mNextMarker = d.mLastTime, !.mLastState = {},
                  !.mLastDemuxedState = {},
                  !.mActiveTimes = [i \in DOMAIN @ |-> 0],
                  !.next = NextClear(@).s], OK)

\* LedsEventsAggregator<LEDS>(timeWindow), with next what
\* attachNextConsumer has stored
NewAggregator(timeWindow, next) ==
    [kind |-> "aggr", mTimeWindow |-> timeWindow, mNextMarker |-> 0,
     mLastState |-> {}, mLastEmittedState |-> {}, mLastTime |-> 0,
     next |-> next]

AggrShiftMarker_ByOne(marker, timeWindow) == marker + 1

\* "mNextMarker += mTimeWindow" of the aggregator
AggrShiftMarker(marker, timeWindow) == marker + timeWindow

AggrChanged_Always(a) == TRUE

\* "mLastState != mLastEmittedState"
AggrChanged(a) == a.mLastState # a.mLastEmittedState

\* LedsEventsAggregator::updateOpenedWindow
AggrUpdateOpenedWindow(a, time) ==
    IF IsWindowOpen(a) /\ time >= a.mNextMarker
    THEN With([a EXCEPT !.mLastTime = a.mNextMarker], LAMBDA c :
         IF AggrChanged(c)
         THEN With(NextAddEvent(c.next, c.mNextMarker, c.mLastState), LAMBDA r :
                  IF r.err # OK
                  THEN Res([c EXCEPT !.mLastEmittedState = c.mLastState,
                                     !.next = r.s], r.err)
                  ELSE Res([c EXCEPT !.mLastEmittedState = c.mLastState,
                                     !.next = r.s,
                                     !.mNextMarker =
                                         AggrShiftMarker(@, c.mTimeWindow)],
                           OK))
         ELSE With(NextAdvanceTime(c.next, c.mNextMarker), LAMBDA r :
                  Res([c EXCEPT !.next = r.s], r.err)))
    ELSE Res(a, OK)

\* EventConsumer::addEvent on an aggregator (LedsEventsAggregator::doAddEvent)
AggrAddEvent(a, time, state) ==
    IF time < a.mLastTime THEN Res(a, Causality)
    ELSE With(AggrUpdateOpenedWindow(a, time), LAMBDA r :
         IF r.err # OK THEN r
         ELSE With([r.s EXCEPT !.mLastState = state], LAMBDA u :
              IF ~IsWindowOpen(u)
              THEN Res([u EXCEPT !.mNextMarker = time + u.mTimeWindow,
                                 !.mLastTime = time], OK)
              ELSE Res([u EXCEPT !.mLastTime = time], OK)))

\* EventConsumer::advanceTime on an aggregator
\* (LedsEventsAggregator::doAdvanceTime)
AggrAdvanceTime(a, time) ==
    IF time < a.mLastTime THEN Res(a, Causality)
    ELSE With(AggrUpdateOpenedWindow(a, time), LAMBDA r :
         IF r.err # OK THEN r
         ELSE IF ~IsWindowOpen(r.s)
         THEN With(NextAdvanceTime(r.s.next, time), LAMBDA n :
                  IF n.err # OK THEN Res([r.s EXCEPT !.next = n.s], n.err)
                  ELSE Res([r.s EXCEPT !.next = n.s, !.mLastTime = time], OK))
         ELSE Res([r.s EXCEPT !.mLastTime = time], OK))

AggrClear_ResetTime(a) ==
    Res([a EXCEPT !.mNextMarker = 0, !.mLastTime = 0, !.mLastState = {},
                  !.mLastEmittedState = {}, !.next = NextClear(@).s], OK)

\* EventConsumer::clear on an aggregator (LedsEventsAggregator::doClear)
AggrClear(a) ==
    Res([a EXCEPT !.mNextMarker = a.mLastTime, !.mLastState = {},
                  !.mLastEmittedState = {}, !.next = NextClear(@).s], OK)

\* ------------------------------------------------ the 7-segment display

\* bitRead(x, i)
BitRead(x, i) == (x \div (2 ^ i)) % 2 = 1

\* a BitArray<N> whose state is read bit by bit is the function of its bits,
\* from 0 to N - 1; BitArray(initialValue) and fill
NewBitArray(N, initialValue) == [i \in 0..(N - 1) |-> initialValue]

\* std::min over the values of S
Min(S) == CHOOSE x \in S : \A y \in S : x <= y

\* the N of a BitArray<N>
BitArraySize(bits) == Cardinality(DOMAIN bits)

ShiftRight_Keep(input) == input

\* "input = input >> 1"
ShiftRight(input) == input \div 2

\* the while loop of BitArray::set
RECURSIVE BitArraySetLoop(_, _, _, _)
BitArraySetLoop(bits, input, offset, end) ==
    IF offset < end
    THEN BitArraySetLoop([bits EXCEPT ![offset] = (input % 2 = 1)],
                         ShiftRight(input), offset + 1, end)
    ELSE bits

\* BitArray::set<T>(input, offset, count) for a T of width bits: the lowest
\* bit goes to offset
BitArraySet(bits, width, input, offset, count) ==
    IF offset >= BitArraySize(bits) THEN bits
    ELSE BitArraySetLoop(bits, input, offset,
                         Min({offset + Min({count, width}), BitArraySize(bits)}))

\* the while loop of BitArray::get; count is at most the width of T, so
\* that res << 1 drops no bit
RECURSIVE BitArrayGetLoop(_, _, _, _)
BitArrayGetLoop(bits, offset, count, res) ==
    IF count > 0
    THEN BitArrayGetLoop(bits, offset, count - 1,
                         2 * res + (IF bits[offset + count - 1] THEN 1 ELSE 0))
    ELSE res

\* BitArray::get<T>(offset, count) for a T of width bits: the bit at offset
\* is the lowest bit
BitArrayGet(bits, width, offset, count) ==
    IF offset >= BitArraySize(bits) THEN 0
    ELSE BitArrayGetLoop(bits, offset,
                         Min({count, width, BitArraySize(bits) - offset}),
                         0)

\* ShiftRegister(size): mRegister[idx] is element idx + 1
NewShiftRegister(size) == [i \in 1..size |-> FALSE]

RegPush_Grow(reg, bit) == <<bit>> \o reg

\* ShiftRegister::push, the register after it: push_front, then pop_back
RegPush(reg, bit) == SubSeq(<<bit>> \o reg, 1, Len(reg))

\* ShiftRegister::push, the bit it returns: back() after push_front
RegPushed(reg, bit) == (<<bit>> \o reg)[Len(reg) + 1]

\* the loop of ShiftRegister::get, with mask the highest bit of T
RECURSIVE RegGetLoop(_, _, _, _, _)
RegGetLoop(reg, idx, endIdx, mask, res) ==
    IF idx < endIdx
    THEN RegGetLoop(reg, idx + 1, endIdx, mask,
                    (res \div 2) + (IF reg[idx + 1] THEN mask ELSE 0))
    ELSE res

\* ShiftRegister::get<T>(idx) for a T of len bits
RegGet(reg, len, idx) ==
    RegGetLoop(reg, idx * len, Min({idx * len + len, Len(reg)}),
               2 ^ (len - 1), 0)

\* SerialSegLedDisplay<DIGITS>() with a TimeSeries attached as its sprout
\* and attachToSimulation() called with the default pins
NewSegDisplay(DIGITS) ==
    [kind |-> "seg", DIGITS |-> DIGITS,
     mState |-> NewBitArray(DIGITS * 8, TRUE),
     mShiftRegister |-> NewShiftRegister(16),
     mDataInputPin |-> data_pin, mClockInputPin |-> clock_pin,
     mLatchPin |-> latch_pin,
     mDataInput |-> FALSE, mClockInput |-> FALSE, mLatch |-> FALSE,
     mLastTime |-> 0, sprout |-> NewTimeSeries]

\* the loop of SerialSegLedDisplay::updateState over the digits from d on
RECURSIVE SegSetDigits(_, _, _, _, _)
SegSetDigits(newState, activeDigits, glyph, d, DIGITS) ==
    IF d < DIGITS
    THEN SegSetDigits(IF BitRead(activeDigits, d)
                      THEN BitArraySet(newState, 8, glyph, d * 8, 8)
                      ELSE newState,
                      activeDigits, glyph, d + 1, DIGITS)
    ELSE newState

SegChanged_Always(newState, mState) == TRUE

\* "newState != mState"
SegChanged(newState, mState) == newState # mState

\* SerialSegLedDisplay::updateState
SegUpdateState(d, time) ==
    With(SegSetDigits(NewBitArray(d.DIGITS * 8, TRUE),
                      RegGet(d.mShiftRegister, 8, 0), RegGet(d.mShiftRegister, 8, 1),
                      0, d.DIGITS), LAMBDA newState :
        IF SegChanged(newState, d.mState)
        THEN With(TsAddEvent(d.sprout, time, newState), LAMBDA r :
                 Res([d EXCEPT !.mState = newState, !.sprout = r.s], r.err))
        ELSE Res(d, OK))

Edge_Falling(old, new) == old /\ ~new

\* "!mLatch && pinValue": the latch goes from LOW to HIGH
RisingEdge(old, new) == ~old /\ new

Edge_Rising(old, new) == ~old /\ new

\* "mClockInput && !pinValue": the clock goes from HIGH to LOW
FallingEdge(old, new) == old /\ ~new

\* SerialSegLedDisplay::doAddEvent up to "pass the event along"
SegPinChange(d, time, pin, pinValue) ==
    IF pin = d.mClockInputPin
    THEN Res([d EXCEPT !.mShiftRegister =
                           IF FallingEdge(d.mClockInput, pinValue)
                           THEN RegPush(@, d.mDataInput) ELSE @,
                       !.mClockInput = pinValue], OK)
    ELSE IF pin = d.mDataInputPin
    THEN Res([d EXCEPT !.mDataInput = pinValue], OK)
    ELSE IF pin = d.mLatchPin
    THEN With(IF RisingEdge(d.mLatch, pinValue) THEN SegUpdateState(d, time)
              ELSE Res(d, OK), LAMBDA r :
             IF r.err # OK THEN r
             ELSE Res([r.s EXCEPT !.mLatch = pinValue], OK))
    ELSE Res(d, Runtime)

\* EventConsumer::addEvent on a SerialSegLedDisplay
\* (SerialSegLedDisplay::doAddEvent); no next consumer is attached
SegAddEvent(d, time, pin, value) ==
    IF time < d.mLastTime THEN Res(d, Causality)
    ELSE With(SegPinChange(d, time, pin, value = HIGH), LAMBDA r :
         IF r.err # OK THEN r
         ELSE With(TsAdvanceTime(r.s.sprout, time), LAMBDA a :
              IF a.err # OK THEN Res([r.s EXCEPT !.sprout = a.s], a.err)
              ELSE Res([r.s EXCEPT !.sprout = a.s, !.mLastTime = time], OK)))

\* SerialSegLedDisplay::getState
SegGetState(d) == d.mState

\* EventConsumer::advanceTime on a SerialSegLedDisplay
\* (ForkedEventConsumer::doAdvanceTime); no next consumer is attached
SegAdvanceTime(d, time) ==
    IF time < d.mLastTime THEN Res(d, Causality)
    ELSE With(TsAdvanceTime(d.sprout, time), LAMBDA a :
         IF a.err # OK THEN Res([d EXCEPT !.sprout = a.s], a.err)
         ELSE Res([d EXCEPT !.sprout = a.s, !.mLastTime = time], OK))

\* the display as the consumer attachToSimulation has attached to the
\* output pins: each event an ArduinoPin::write of digitalWrite hands on
\* reaches addEvent of the display, and the advanceCurrentTimeBy that ends
\* the digitalWrite reaches its advanceTime
RECURSIVE SegConsume(_, _)
SegConsume(d, wrote) ==
    IF wrote = <<>> THEN Res(d, OK)
    ELSE With(SegAddEvent(d, wrote[1].time, wrote[1].value.pin,
                          wrote[1].value.value), LAMBDA r :
         IF r.err # OK THEN r
         ELSE With(SegAdvanceTime(r.s, wrote[1].time + mPinWriteDelay),
                   LAMBDA a :
              IF a.err # OK THEN a ELSE SegConsume(a.s, Tail(wrote))))

\* nextAddEvent / nextAdvanceTime / nextClear of a consumer whose next is n
NextAddEvent(n, time, value) ==
    CASE n.kind = "none" -> Res(n, OK)
      [] n.kind = "ts" -> TsAddEvent(n, time, value)
      [] n.kind = "pin" -> PinAddEvent(n, time, value)
      [] n.kind = "demux" -> DemuxAddEvent(n, time, value)
      [] n.kind = "aggr" -> AggrAddEvent(n, time, value)

NextAdvanceTime(n, time) ==
    CASE n.kind = "none" -> Res(n, OK)
      [] n.kind = "ts" -> TsAdvanceTime(n, time)
      [] n.kind = "pin" -> PinAdvanceTime(n, time)
      [] n.kind = "demux" -> DemuxAdvanceTime(n, time)
      [] n.kind = "aggr" -> AggrAdvanceTime(n, time)

NextClear(n) ==
    CASE n.kind = "none" -> Res(n, OK)
      [] n.kind = "ts" -> TsClear(n)
      [] n.kind = "pin" -> PinClear(n)
      [] n.kind = "demux" -> DemuxClear(n)
      [] n.kind = "aggr" -> AggrClear(n)

\* the result of an operation of a FutureTimeSeries f whose next is n:
\* out lists the stored events handed to n by consumeEventsUntil
FRes(f, n, err, out) == [f |-> f, n |-> n, err |-> err, out |-> out]

ConsumeBound_LT(e, time) == e.time < time

\* the loop condition of consumeEventsUntil: "(inclusive)"
ConsumeBound(e, time) == e.time <= time

RECURSIVE FtsConsumeEventsUntil(_, _, _)
FtsConsumeEventsUntil(f, n, time) ==
    IF f.mLastConsumed < Len(f.mEvents)
       /\ ConsumeBound(f.mEvents[f.mLastConsumed + 1], time)
    THEN LET e == f.mEvents[f.mLastConsumed + 1]
         IN With(NextAddEvent(n, e.time, e.value), LAMBDA r :
                IF r.err # OK THEN FRes(f, r.s, r.err, <<>>)
                ELSE With(FtsConsumeEventsUntil(
                              [f EXCEPT !.mLastConsumed = @ + 1], r.s, time),
                          LAMBDA rest : [rest EXCEPT !.out = <<e>> \o @]))
    ELSE FRes(f, n, OK, <<>>)

ShuffleStop_GE(prev, new) == ~(prev.time >= new.time)

ShuffleStop_Always(prev, new) == TRUE

\* the swap loop of addFutureEvent stops at the first older-or-equal event
ShuffleStop(prev, new) == ~(prev.time > new.time)

\* the swap loop of addFutureEvent; idx is the 0-based index of the new event
RECURSIVE Shuffle(_, _)
Shuffle(events, idx) ==
    IF idx > 0 /\ ~ShuffleStop(events[idx], events[idx + 1])
    THEN Shuffle([events EXCEPT ![idx] = events[idx + 1],
                                ![idx + 1] = events[idx]], idx - 1)
    ELSE [events |-> events, idx |-> idx]

\* FutureTimeSeries::addFutureEvent
FtsAddFutureEvent(f, time, value, id) ==
    IF f.mLastTime > time THEN Res(f, Causality)
    ELSE With(Shuffle(Append(f.mEvents,
                          [time |-> time, value |-> value, id |-> id]),
                      Len(f.mEvents)), LAMBDA s :
             LET g == [f EXCEPT !.mEvents = s.events]
             IN IF s.idx < f.mLastConsumed THEN Res(g, Breach) ELSE Res(g, OK))

FtsAddEvent_NoCheck(f, n, time, value, id) ==
    With(FtsConsumeEventsUntil(f, n, time), LAMBDA c :
    With(FtsAddFutureEvent(c.f, time, value, id), LAMBDA a :
    With(NextAddEvent(c.n, time, value), LAMBDA r :
        FRes([a.s EXCEPT !.mLastTime = time], r.s, OK, c.out))))

\* EventConsumer::addEvent on a FutureTimeSeries (FutureTimeSeries::doAddEvent)
FtsAddEvent(f, n, time, value, id) ==
    IF time < f.mLastTime THEN FRes(f, n, Causality, <<>>)
    ELSE With(FtsConsumeEventsUntil(f, n, time), LAMBDA c :
         IF c.err # OK THEN c
         ELSE With(FtsAddFutureEvent(c.f, time, value, id), LAMBDA a :
              IF a.err # OK THEN FRes(a.s, c.n, a.err, c.out)
              ELSE With(NextAddEvent(c.n, time, value), LAMBDA r :
                   IF r.err # OK THEN FRes(a.s, r.s, r.err, c.out)
                   ELSE FRes([a.s EXCEPT !.mLastTime = time], r.s, OK,
                             c.out))))

\* EventConsumer::advanceTime on a FutureTimeSeries
\* (FutureTimeSeries::doAdvanceTime)
FtsAdvanceTime(f, n, time) ==
    IF time < f.mLastTime THEN FRes(f, n, Causality, <<>>)
    ELSE With(FtsConsumeEventsUntil(f, n, time), LAMBDA c :
         IF c.err # OK THEN c
         ELSE With(NextAdvanceTime(c.n, time), LAMBDA r :
              IF r.err # OK THEN FRes(c.f, r.s, r.err, c.out)
              ELSE FRes([c.f EXCEPT !.mLastTime = time], r.s, OK, c.out)))

\* EventConsumer::clear on a FutureTimeSeries (FutureTimeSeries::doClear)
FtsClear(f, n) ==
    FRes([f EXCEPT !.mLastConsumed = 0, !.mEvents = <<>>],
         NextClear(n).s, OK, <<>>)


\* --------------------------------------------------------- the virtual pin

\* ArduinoPin(pin, wiring) : mState(pin, UNDEFINED), mWiring(wiring),
\* mMode(UNDEFINED); next is what attachNextConsumer has stored
NewPin(pin, wiring) ==
    [kind |-> "pin", pin |-> pin, value |-> UNDEFINED, mWiring |-> wiring,
     mMode |-> UNDEFINED, mLastTime |-> 0, next |-> NoConsumer]

\* ArduinoPin::setMode
PinSetMode(p, mode) ==
    IF mode # INPUT /\ mode # OUTPUT THEN Res(p, Violation)
    ELSE IF p.mMode # UNDEFINED /\ p.mMode # mode THEN Res(p, Violation)
    ELSE IF p.mWiring = INPUT /\ p.mMode = OUTPUT THEN Res(p, Violation)
    ELSE LET q == [p EXCEPT !.mMode = mode]
         IN IF q.mMode = INPUT /\ q.value = UNDEFINED
            THEN Res([q EXCEPT !.value = HIGH], OK)
            ELSE Res(q, OK)

PinRead_AnyMode(p) == [err |-> OK, ret |-> p.value]

\* ArduinoPin::read
PinRead(p) ==
    IF p.mMode = UNDEFINED THEN [err |-> Violation, ret |-> 0]
    ELSE IF p.mMode # INPUT THEN [err |-> Violation, ret |-> 0]
    ELSE [err |-> OK, ret |-> p.value]

PinWrite_NoEvent(p, value, time) ==
    IF p.mMode # OUTPUT THEN Res(p, Violation)
    ELSE Res([p EXCEPT !.value = value], OK)

\* ArduinoPin::write
PinWrite(p, value, time) ==
    IF p.mMode = UNDEFINED THEN Res(p, Violation)
    ELSE IF p.mMode # OUTPUT THEN Res(p, Violation)
    ELSE PinAddEvent([p EXCEPT !.value = value], time,
                     [pin |-> p.pin, value |-> value])

\* ---------------------------------------------------------- the emulator

MethodNames ==
    {"pinMode", "digitalWrite", "digitalRead", "analogRead",
     "analogReference", "analogWrite", "millis", "micros", "delay",
     "delayMicroseconds", "pulseIn", "pulseInLong", "shiftOut", "shiftIn",
     "tone", "noTone", "serial"}

\* an emulator with its controller is a record e:
\*   mCurrentTime, mPins (pin -> ArduinoPin), mInputs (the pins that have an
\*   input registered; the input of pin p is mInputBuffers[p], whose next
\*   consumer is mPins[p]), mInputBuffers (pin -> FutureTimeSeries),
\*   mEnable (method name -> flag)
\* the result of a call: the emulator it leaves, err, the value returned,
\* the events ArduinoPin::write handed on, and the stored input events
\* released, in the order of their release
\* gate names the method whose enable flag refused the call ("" if none);
\* reads counts the digitalRead calls that returned
ERes(e, err, ret, wrote, released) ==
    [e |-> e, err |-> err, ret |-> ret, wrote |-> wrote, released |-> released,
     gate |-> "", reads |-> 0]

\* first loop of ArduinoEmulator::advanceCurrentTimeBy, over todo, the keys
\* of mInputs not yet visited (std::map iterates in ascending key order)
RECURSIVE AdvanceInputs(_, _)
AdvanceInputs(e, todo) ==
    IF todo = {} THEN ERes(e, OK, 0, <<>>, <<>>)
    ELSE LET p == Min(todo)
         IN With(FtsAdvanceTime(e.mInputBuffers[p], e.mPins[p], e.mCurrentTime),
                 LAMBDA r :
            With([e EXCEPT !.mInputBuffers[p] = r.f, !.mPins[p] = r.n],
                 LAMBDA f :
                IF r.err # OK THEN ERes(f, r.err, 0, <<>>, r.out)
                ELSE With(AdvanceInputs(f, todo \ {p}), LAMBDA rest :
                          [rest EXCEPT !.released = r.out \o @])))

\* second loop of ArduinoEmulator::advanceCurrentTimeBy, over the keys of
\* mPins not yet visited
RECURSIVE AdvancePins(_, _)
AdvancePins(e, todo) ==
    IF todo = {} THEN ERes(e, OK, 0, <<>>, <<>>)
    ELSE LET p == Min(todo)
         IN With(PinAdvanceTime(e.mPins[p], e.mCurrentTime), LAMBDA r :
            With([e EXCEPT !.mPins[p] = r.s], LAMBDA f :
                IF r.err # OK THEN ERes(f, r.err, 0, <<>>, <<>>)
                ELSE AdvancePins(f, todo \ {p})))

\* ArduinoEmulator::advanceCurrentTimeBy
EmuAdvanceCurrentTimeBy(e, us) ==
    With([e EXCEPT !.mCurrentTime = @ + us], LAMBDA f :
    With(AdvanceInputs(f, f.mInputs), LAMBDA i :
        IF i.err # OK THEN i
        ELSE [AdvancePins(i.e, DOMAIN i.e.mPins)
              EXCEPT !.released = i.released]))

Fail(e, err) == ERes(e, err, 0, <<>>, <<>>)

\* throw ArduinoEmulatorException("The ...() function is disabled in the
\* emulator.")
Disabled(e, name) == [Fail(e, Violation) EXCEPT !.gate = name]

\* ArduinoEmulator::registerPin
EmuRegisterPin(e, pin, wiring) ==
    IF pin \in DOMAIN e.mPins THEN Fail(e, Violation)
    ELSE ERes([e EXCEPT !.mPins = @ @@ (pin :> NewPin(pin, wiring))],
              OK, 0, <<>>, <<>>)

\* ArduinoEmulator::pinMode
EmuPinMode(e, pin, mode) ==
    IF ~e.mEnable["pinMode"] THEN Disabled(e, "pinMode")
    ELSE IF pin \notin DOMAIN e.mPins THEN Fail(e, Violation)
    ELSE With(PinSetMode(e.mPins[pin], mode), LAMBDA r :
         IF r.err # OK THEN Fail([e EXCEPT !.mPins[pin] = r.s], r.err)
         ELSE EmuAdvanceCurrentTimeBy([e EXCEPT !.mPins[pin] = r.s],
                                      mPinSetModeDelay))

EmuDigitalWrite_NoCost(e, pin, val) ==
    IF ~e.mEnable["digitalWrite"] THEN Disabled(e, "digitalWrite")
    ELSE IF pin \notin DOMAIN e.mPins THEN Fail(e, Violation)
    ELSE With(PinWrite(e.mPins[pin], val, e.mCurrentTime), LAMBDA r :
         IF r.err # OK THEN Fail([e EXCEPT !.mPins[pin] = r.s], r.err)
         ELSE [EmuAdvanceCurrentTimeBy([e EXCEPT !.mPins[pin] = r.s], 0)
               EXCEPT !.wrote = <<[time |-> e.mCurrentTime,
                                   value |-> [pin |-> pin, value |-> val]]>>])

\* ArduinoEmulator::digitalWrite
EmuDigitalWrite(e, pin, val) ==
    IF ~e.mEnable["digitalWrite"] THEN Disabled(e, "digitalWrite")
    ELSE IF pin \notin DOMAIN e.mPins THEN Fail(e, Violation)
    ELSE With(PinWrite(e.mPins[pin], val, e.mCurrentTime), LAMBDA r :
         IF r.err # OK THEN Fail([e EXCEPT !.mPins[pin] = r.s], r.err)
         ELSE [EmuAdvanceCurrentTimeBy([e EXCEPT !.mPins[pin] = r.s],
                                       mPinWriteDelay)
               EXCEPT !.wrote = <<[time |-> e.mCurrentTime,
                                   value |-> [pin |-> pin, value |-> val]]>>])

EmuDigitalRead_NoCost(e, pin) ==
    IF ~e.mEnable["digitalRead"] THEN Disabled(e, "digitalRead")
    ELSE IF pin \notin DOMAIN e.mPins THEN Fail(e, Violation)
    ELSE LET r == PinRead(e.mPins[pin])
         IN IF r.err # OK THEN Fail(e, r.err)
            ELSE [EmuAdvanceCurrentTimeBy(e, 0)
                  EXCEPT !.ret = r.ret, !.reads = 1]

\* ArduinoEmulator::digitalRead
EmuDigitalRead(e, pin) ==
    IF ~e.mEnable["digitalRead"] THEN Disabled(e, "digitalRead")
    ELSE IF pin \notin DOMAIN e.mPins THEN Fail(e, Violation)
    ELSE LET r == PinRead(e.mPins[pin])
         IN IF r.err # OK THEN Fail(e, r.err)
            ELSE [EmuAdvanceCurrentTimeBy(e, mPinReadDelay)
                  EXCEPT !.ret = r.ret, !.reads = 1]

\* ArduinoEmulator::delayMicroseconds
EmuDelayMicroseconds(e, us) ==
    IF ~e.mEnable["delayMicroseconds"] THEN Disabled(e, "delayMicroseconds")
    ELSE EmuAdvanceCurrentTimeBy(e, us)

\* ArduinoEmulator::analogRead
EmuAnalogRead(e, pin) ==
    IF ~e.mEnable["analogRead"] THEN Disabled(e, "analogRead")
    ELSE IF pin \notin DOMAIN e.mPins THEN Fail(e, Violation)
    ELSE LET r == PinRead(e.mPins[pin])
         IN IF r.err # OK THEN Fail(e, r.err)
            ELSE [EmuAdvanceCurrentTimeBy(e, mPinReadDelay)
                  EXCEPT !.ret = r.ret * 1023]

\* analogReference, pulseIn, pulseInLong, tone, noTone: past the gate,
\* throw ArduinoEmulatorException("... is not implemented in the emulator yet.")
EmuNotImplemented(e, name) ==
    IF ~e.mEnable[name] THEN Disabled(e, name) ELSE Fail(e, Violation)

digitalPinHasPWM(p) == p \in {3, 5, 6, 9, 10, 11}

\* ArduinoEmulator::analogWrite
EmuAnalogWrite(e, pin, val) ==
    IF ~e.mEnable["analogWrite"] THEN Disabled(e, "analogWrite")
    ELSE IF ~digitalPinHasPWM(pin) THEN Fail(e, Violation)
    ELSE Fail(e, Violation)

\* ArduinoEmulator::millis
EmuMillis(e) ==
    IF ~e.mEnable["millis"] THEN Disabled(e, "millis")
    ELSE ERes(e, OK, e.mCurrentTime \div 1000, <<>>, <<>>)

\* ArduinoEmulator::micros
EmuMicros(e) ==
    IF ~e.mEnable["micros"] THEN Disabled(e, "micros")
    ELSE ERes(e, OK, e.mCurrentTime, <<>>, <<>>)

EmuDelay_NoGate(e, ms) == EmuAdvanceCurrentTimeBy(e, 1000 * ms)

\* ArduinoEmulator::delay
EmuDelay(e, ms) ==
    IF ~e.mEnable["delay"] THEN Disabled(e, "delay")
    ELSE EmuAdvanceCurrentTimeBy(e, 1000 * ms)

\* the call that left n, made after the calls that left r: an exception of
\* the earlier calls ends the sequence
After(r, n) ==
    IF r.err # OK THEN r
    ELSE With(n, LAMBDA m :
              [m EXCEPT !.wrote = r.wrote \o @, !.released = r.released \o @,
                        !.reads = r.reads + @])

ShiftOutBit_Lowest(bitOrder, val) == val % 2

\* the bit a round of shiftOut writes to the data pin: "val & 1" or
\* "(val & 128) != 0"
ShiftOutBit(bitOrder, val) ==
    IF bitOrder = LSBFIRST THEN val % 2
    ELSE IF (val \div 128) % 2 # 0 THEN 1 ELSE 0

\* the loop of shiftOut from its i-th round on; val is a std::uint8_t
\* (d, h and l are what the three digitalWrite calls of a round leave)
RECURSIVE ShiftOutBits(_, _, _, _, _, _)
ShiftOutBits(r, dataPin, clockPin, bitOrder, val, i) ==
    IF i = 8 \/ r.err # OK THEN r
    ELSE LET bit == ShiftOutBit(bitOrder, val)
             shifted == IF bitOrder = LSBFIRST THEN val \div 2
                        ELSE (val * 2) % 256
         IN With(After(r, EmuDigitalWrite(r.e, dataPin, bit)), LAMBDA d :
            With(After(d, EmuDigitalWrite(d.e, clockPin, HIGH)), LAMBDA h :
            With(After(h, EmuDigitalWrite(h.e, clockPin, LOW)), LAMBDA l :
                ShiftOutBits(l, dataPin, clockPin, bitOrder, shifted, i + 1))))

\* ArduinoEmulator::shiftOut
EmuShiftOut(e, dataPin, clockPin, bitOrder, val) ==
    IF ~e.mEnable["shiftOut"] THEN Disabled(e, "shiftOut")
    ELSE ShiftOutBits(ERes(e, OK, 0, <<>>, <<>>), dataPin, clockPin,
                      bitOrder, val, 0)

\* the loop of shiftIn from its i-th round on; r.ret is value so far (the
\* pins hold LOW or HIGH, so that |= of the shifted bit adds it)
RECURSIVE ShiftInBits(_, _, _, _, _)
ShiftInBits(r, dataPin, clockPin, bitOrder, i) ==
    IF i = 8 \/ r.err # OK THEN r
    ELSE With(After(r, EmuDigitalWrite(r.e, clockPin, HIGH)), LAMBDA h :
         With(After(h, EmuDigitalRead(h.e, dataPin)), LAMBDA d :
         With(After(d, EmuDigitalWrite(d.e, clockPin, LOW)), LAMBDA l :
             LET value == IF bitOrder = LSBFIRST THEN r.ret + d.ret * (2 ^ i)
                          ELSE r.ret + d.ret * (2 ^ (7 - i))
             IN ShiftInBits(IF l.err # OK THEN l
                            ELSE [l EXCEPT !.ret = value % 256],
                            dataPin, clockPin, bitOrder, i + 1))))

\* ArduinoEmulator::shiftIn
EmuShiftIn(e, dataPin, clockPin, bitOrder) ==
    IF ~e.mEnable["shiftIn"] THEN Disabled(e, "shiftIn")
    ELSE ShiftInBits(ERes(e, OK, 0, <<>>, <<>>), dataPin, clockPin,
                     bitOrder, 0)

\* SerialMock::begin
SerialBegin(e) ==
    IF ~e.mEnable["serial"] THEN Disabled(e, "serial")
    ELSE ERes(e, OK, 0, <<>>, <<>>)

\* ArduinoEmulator::registerPinInput, for the input mInputBuffers[pin]
EmuRegisterPinInput(e, pin) ==
    IF pin \notin DOMAIN e.mPins THEN Fail(e, Violation)
    ELSE IF e.mPins[pin].mWiring # INPUT THEN Fail(e, Runtime)
    ELSE ERes([e EXCEPT !.mInputs = @ \cup {pin}], OK, 0, <<>>, <<>>)

\* ArduinoSimulationController::enqueuePinValueChange; id numbers the call
CtlEnqueuePinValueChange(e, pin, value, delay, id) ==
    LET needsRegistration == pin \notin DOMAIN e.mInputBuffers
        buf == IF needsRegistration THEN NewFutureTimeSeries
               ELSE e.mInputBuffers[pin]
    IN With(FtsAddFutureEvent(buf, e.mCurrentTime + delay,
                              [pin |-> pin, value |-> value], id), LAMBDA a :
       With([e EXCEPT !.mInputBuffers = (pin :> a.s) @@ e.mInputBuffers],
            LAMBDA f :
           IF a.err # OK THEN Fail(f, a.err)
           ELSE IF needsRegistration THEN EmuRegisterPinInput(f, pin)
           ELSE ERes(f, OK, 0, <<>>, <<>>)))

\* ArduinoSimulationController::attachPinEventsConsumer, for a new
\* TimeSeries; the chain of the pin ends at the pin itself
CtlAttachPinEventsConsumer(e, pin) ==
    IF pin \notin DOMAIN e.mPins THEN Fail(e, Violation)
    ELSE ERes([e EXCEPT !.mPins[pin].next = NewTimeSeries], OK, 0, <<>>, <<>>)

\* ArduinoSimulationController::clearPinEvents
CtlClearPinEvents(e, pin) ==
    IF pin \notin DOMAIN e.mPins THEN Fail(e, Violation)
    ELSE ERes([e EXCEPT !.mPins[pin] = PinClear(@).s], OK, 0, <<>>, <<>>)

\* ArduinoSimulationController::setMethodEnableFlag
CtlSetMethodEnableFlag(e, name, enabled) ==
    IF name \notin MethodNames THEN Fail(e, Violation)
    ELSE ERes([e EXCEPT !.mEnable[name] = enabled], OK, 0, <<>>, <<>>)

\* ArduinoEmulator() followed by ArduinoSimulationController(emulator)
NewEmulator ==
    [mCurrentTime |-> 0, mPins |-> <<>>, mInputs |-> {},
     mInputBuffers |-> <<>>, mEnable |-> [n \in MethodNames |-> TRUE]]

\* ----------------------------------------- serial input and the drivers

\* the result of a controller call on the serial data: the emulator e, the
\* scheduled strings q (mSerialInput) and the receive buffer data
\* (mSerialData) it leaves, and err
SRes(e, q, data, err) == [e |-> e, q |-> q, data |-> data, err |-> err]

\* ArduinoEmulator::addSerialData; a string is the sequence of the codes of
\* its chars
AddSerialData(data, str) == data \o str

\* the while loop of ArduinoSimulationController::advanceCurrentTimeBy
RECURSIVE ReleaseSerial(_, _, _)
ReleaseSerial(q, data, currentTime) ==
    IF q # <<>> /\ q[1].time <= currentTime
    THEN ReleaseSerial(Tail(q), AddSerialData(data, q[1].str), currentTime)
    ELSE [q |-> q, data |-> data]

\* ArduinoSimulationController::advanceCurrentTimeBy
CtlAdvanceCurrentTimeBy(e, q, data, time) ==
    With(EmuAdvanceCurrentTimeBy(e, time), LAMBDA a :
        IF a.err # OK THEN SRes(a.e, q, data, a.err)
        ELSE With(ReleaseSerial(q, data, a.e.mCurrentTime), LAMBDA r :
                  SRes(a.e, r.q, r.data, OK)))

CtlEnqueueSerialInputEvent_NoCheck(e, q, data, input, delay) ==
    SRes(e, Append(q, [time |-> e.mCurrentTime + delay, str |-> input]),
         data, OK)

\* ArduinoSimulationController::enqueueSerialInputEvent
CtlEnqueueSerialInputEvent(e, q, data, input, delay) ==
    LET time == e.mCurrentTime + delay
    IN IF q # <<>> /\ q[Len(q)].time > time THEN SRes(e, q, data, Violation)
       ELSE SRes(e, Append(q, [time |-> time, str |-> input]), data, OK)

\* SerialMock::read with ArduinoEmulator::readSerial: ret is the char read,
\* -1 if there is none
SerialRead(e, data) ==
    IF ~e.mEnable["serial"] THEN [data |-> data, err |-> Violation, ret |-> -1]
    ELSE IF Len(data) = 0 THEN [data |-> data, err |-> OK, ret |-> -1]
    ELSE [data |-> Tail(data), err |-> OK, ret |-> data[1]]

\* the loop condition of runMultipleLoops
MultipleContinues(count) == count > 0

PeriodContinues_LE(currentTime, endTime) == currentTime <= endTime

\* the loop condition of runLoopsForPeriod
PeriodContinues(currentTime, endTime) == currentTime < endTime

\* a driver of the controller (runSingleLoop, runMultipleLoops or
\* runLoopsForPeriod): pc is "idle" between the calls of the test, "body"
\* while loop() runs and "callback" while the callback runs; count, endTime
\* and loopDelay are the locals of the driver; arg is the count or the period
\* the driver was called with and start the time at which it was called
NewRun(driver, arg, count, endTime, loopDelay, start) ==
    [driver |-> driver, pc |-> "idle", arg |-> arg, count |-> count,
     endTime |-> endTime, loopDelay |-> loopDelay, start |-> start]

\* no driver has been called yet
NoRun == NewRun("none", 0, 0, 0, 0, 0)

\* ------------------------------------------------ queries on a time series

\* Range(start, end)
NewRange(start, end) ==
    [mStart |-> IF start <= end THEN start ELSE end,
     mEnd |-> IF start <= end THEN end ELSE start]

\* "skip parts of time series which are before the range": the idx and the
\* lastValue of one series after the first loop of compare
RECURSIVE CompareSkip(_, _, _, _)
CompareSkip(events, idx, lastValue, start) ==
    IF idx < Len(events) /\ events[idx + 1].time <= start
    THEN CompareSkip(events, idx + 1, events[idx + 1].value, start)
    ELSE [idx |-> idx, lastValue |-> lastValue]

\* nextTs[t] of compare: the time of the next event of a series, or
\* std::numeric_limits<logtime_t>::max() (later: TRUE) if it has none
NextTs(events, idx) ==
    IF idx < Len(events) THEN [later |-> FALSE, time |-> events[idx + 1].time]
    ELSE [later |-> TRUE, time |-> 0]

\* "nextTs[0] <= nextTs[1]"
CompareNextIsFirst(x, y) ==
    IF x.later THEN y.later ELSE (y.later \/ x.time <= y.time)

CompareSpan_ToNext(nextTime, end, lastTime) == nextTime - lastTime

\* "std::min(nextTs[next], range.end()) - lastTime"
CompareSpan(nextTime, end, lastTime) ==
    (IF nextTime <= end THEN nextTime ELSE end) - lastTime

CompareStep_KeepSecond(c, first, ev) ==
    IF first
    THEN [c EXCEPT !.lastTime = ev.time, !.lastValue1 = ev.value,
                   !.idx1 = @ + 1]
    ELSE [c EXCEPT !.lastTime = ev.time, !.idx2 = @ + 1]

\* "update the local states" of compare: c holds the locals idx, lastValue
\* (of series 1 and 2), lastTime and res; ev is the next event, of series 1
\* if first
CompareStep(c, first, ev) ==
    IF first
    THEN [c EXCEPT !.lastTime = ev.time, !.lastValue1 = ev.value,
                   !.idx1 = @ + 1]
    ELSE [c EXCEPT !.lastTime = ev.time, !.lastValue2 = ev.value,
                   !.idx2 = @ + 1]

\* the main loop of compare and its last step
RECURSIVE CompareLoop(_, _, _, _)
CompareLoop(e1, e2, end, c) ==
    IF c.lastTime < end /\ (c.idx1 < Len(e1) \/ c.idx2 < Len(e2))
    THEN LET first == CompareNextIsFirst(NextTs(e1, c.idx1), NextTs(e2, c.idx2))
             ev == IF first THEN e1[c.idx1 + 1] ELSE e2[c.idx2 + 1]
             res == IF c.lastValue1 # c.lastValue2
                    THEN c.res + CompareSpan(ev.time, end, c.lastTime)
                    ELSE c.res
         IN CompareLoop(e1, e2, end,
                        CompareStep([c EXCEPT !.res = res], first, ev))
    ELSE IF c.lastTime < end /\ c.lastValue1 # c.lastValue2
         THEN c.res + (end - c.lastTime)
         ELSE c.res

\* TimeSeries::compare, called on the series ts with the argument other
TsCompare(ts, other, range, initialValue) ==
    With(CompareSkip(ts.mEvents, 0, initialValue, range.mStart), LAMBDA s1 :
    With(CompareSkip(other.mEvents, 0, initialValue, range.mStart), LAMBDA s2 :
        CompareLoop(ts.mEvents, other.mEvents, range.mEnd,
                    [idx1 |-> s1.idx, idx2 |-> s2.idx,
                     lastValue1 |-> s1.lastValue, lastValue2 |-> s2.lastValue,
                     lastTime |-> range.mStart, res |-> 0])))

\* the values of the events of a series, as a std::vector<VALUE>
ValuesOf(ts) == [i \in 1..Len(ts.mEvents) |-> ts.mEvents[i].value]

\* mEvents[k].value as the search reads it: the value of a stored event, or,
\* past the end of the vector, whatever lies there (beyond[1] right after
\* the last event, and so on)
ReadValue(events, k, beyond) ==
    IF k < Len(events) THEN events[k + 1].value
    ELSE beyond[k - Len(events) + 1]

\* the while loop of findSubsequence at start: the len it ends with, and
\* whether it has read past the end of the vector
RECURSIVE SubMatch(_, _, _, _, _, _)
SubMatch(events, sequence, start, len, past, beyond) ==
    IF len < Len(sequence)
    THEN IF sequence[len + 1] = ReadValue(events, start + len, beyond)
         THEN SubMatch(events, sequence, start, len + 1,
                       past \/ start + len >= Len(events), beyond)
         ELSE [len |-> len, past |-> past \/ start + len >= Len(events)]
    ELSE [len |-> len, past |-> past]

\* "len > bestFit.length()"
SubBetter(len, bestFit) == len > bestFit.mEnd - bestFit.mStart

\* the for loop of findSubsequence from start on; size() - bestFit.length()
\* is unsigned: when a match past the end has made bestFit longer than the
\* series the loop goes on past the end, and the model leaves it there
RECURSIVE SubLoop(_, _, _, _, _, _)
SubLoop(events, sequence, start, bestFit, past, beyond) ==
    IF /\ bestFit.mEnd - bestFit.mStart <= Len(events)
       /\ start < Len(events) - (bestFit.mEnd - bestFit.mStart)
    THEN With(SubMatch(events, sequence, start, 0, past, beyond), LAMBDA r :
             SubLoop(events, sequence, start + 1,
                     IF SubBetter(r.len, bestFit)
                     THEN NewRange(start, start + r.len) ELSE bestFit,
                     r.past, beyond))
    ELSE [range |-> bestFit, past |-> past, err |-> OK]

\* TimeSeries::findSubsequence
TsFindSubsequence(ts, sequence, beyond) ==
    IF sequence = <<>>
    THEN [range |-> NewRange(0, 0), past |-> FALSE, err |-> Runtime]
    ELSE IF ts.mEvents = <<>>
    THEN [range |-> NewRange(0, 0), past |-> FALSE, err |-> OK]
    ELSE SubLoop(ts.mEvents, sequence, 0, NewRange(0, 0), FALSE, beyond)

\* the while loop of findSelectedSubsequence: the idx it ends with
RECURSIVE SelScan(_, _, _)
SelScan(events, value, idx) ==
    IF idx < Len(events) /\ value # events[idx + 1].value
    THEN SelScan(events, value, idx + 1)
    ELSE idx

\* the for loop of findSelectedSubsequence from si on: the mapping
RECURSIVE SelLoop(_, _, _, _, _)
SelLoop(events, sequence, si, idx, mapping) ==
    IF si < Len(sequence)
    THEN With(SelScan(events, sequence[si + 1], idx), LAMBDA found :
             IF found < Len(events)
             THEN SelLoop(events, sequence, si + 1, found,
                          Append(mapping, found))
             ELSE mapping)
    ELSE mapping

\* TimeSeries::findSelectedSubsequence: what it returns and the mapping
TsFindSelectedSubsequence(ts, sequence) ==
    IF sequence.mEvents = <<>>
    THEN [res |-> FALSE, mapping |-> <<>>, err |-> Runtime]
    ELSE IF ts.mEvents = <<>>
    THEN [res |-> FALSE, mapping |-> <<>>, err |-> OK]
    ELSE With(SelLoop(ts.mEvents, ValuesOf(sequence), 0, 0, <<>>),
              LAMBDA mapping :
                 [res |-> Len(mapping) = Len(sequence.mEvents),
                  mapping |-> mapping, err |-> OK])

\* ------------------------------------------------- a forked event consumer

\* a link to no consumer
Null == "nullptr"

\* ForkedEventConsumer() : mSproutConsumer(nullptr), on top of
\* EventConsumer() : mNextConsumer(nullptr), mLastTime(0); a link holds the
\* name of the consumer it points to
NewForkedEventConsumer ==
    [kind |-> "fork", mLastTime |-> 0, mNextConsumer |-> Null,
     mSproutConsumer |-> Null]

AttachNextConsumer_Overwrite(c, consumer) ==
    Res([c EXCEPT !.mNextConsumer = consumer], OK)

\* EventConsumer::attachNextConsumer
AttachNextConsumer(c, consumer) ==
    IF c.mNextConsumer # Null THEN Res(c, Runtime)
    ELSE Res([c EXCEPT !.mNextConsumer = consumer], OK)

\* EventConsumer::detachNextConsumer
DetachNextConsumer(c) ==
    IF c.mNextConsumer = Null THEN Res(c, Runtime)
    ELSE Res([c EXCEPT !.mNextConsumer = Null], OK)

\* ForkedEventConsumer::attachSproutConsumer
AttachSproutConsumer(c, consumer) ==
    IF c.mSproutConsumer # Null THEN Res(c, Runtime)
    ELSE Res([c EXCEPT !.mSproutConsumer = consumer], OK)

\* ForkedEventConsumer::detachSproutConsumer
DetachSproutConsumer(c) ==
    IF c.mSproutConsumer = Null THEN Res(c, Runtime)
    ELSE Res([c EXCEPT !.mSproutConsumer = Null], OK)

\* below, w holds the forked consumer (w.fork) and the time series that can
\* be attached to it, by name (w.objs)

\* EventConsumer::nextAddEvent of the forked consumer
ForkNextAddEvent(w, time, value) ==
    IF w.fork.mNextConsumer = Null THEN Res(w, OK)
    ELSE With(TsAddEvent(w.objs[w.fork.mNextConsumer], time, value),
              LAMBDA r :
                 Res([w EXCEPT !.objs[w.fork.mNextConsumer] = r.s], r.err))

\* EventConsumer::nextAdvanceTime of the forked consumer
ForkNextAdvanceTime(w, time) ==
    IF w.fork.mNextConsumer = Null THEN Res(w, OK)
    ELSE With(TsAdvanceTime(w.objs[w.fork.mNextConsumer], time), LAMBDA r :
             Res([w EXCEPT !.objs[w.fork.mNextConsumer] = r.s], r.err))

\* EventConsumer::nextClear of the forked consumer
ForkNextClear(w) ==
    IF w.fork.mNextConsumer = Null THEN Res(w, OK)
    ELSE With(TsClear(w.objs[w.fork.mNextConsumer]), LAMBDA r :
             Res([w EXCEPT !.objs[w.fork.mNextConsumer] = r.s], r.err))

ForkDoAddEvent_Sprout(w, time, value) ==
    With(ForkNextAddEvent(w, time, value), LAMBDA r :
        IF r.err # OK \/ r.s.fork.mSproutConsumer = Null THEN r
        ELSE With(TsAddEvent(r.s.objs[r.s.fork.mSproutConsumer], time, value),
                  LAMBDA q :
                     Res([r.s EXCEPT !.objs[r.s.fork.mSproutConsumer] = q.s],
                         q.err)))

\* ForkedEventConsumer::doAddEvent
ForkDoAddEvent(w, time, value) == ForkNextAddEvent(w, time, value)

\* ForkedEventConsumer::doAdvanceTime
ForkDoAdvanceTime(w, time) ==
    With(ForkNextAdvanceTime(w, time), LAMBDA r :
        IF r.err # OK \/ r.s.fork.mSproutConsumer = Null THEN r
        ELSE With(TsAdvanceTime(r.s.objs[r.s.fork.mSproutConsumer], time),
                  LAMBDA q :
                     Res([r.s EXCEPT !.objs[r.s.fork.mSproutConsumer] = q.s],
                         q.err)))

\* ForkedEventConsumer::doClear
ForkDoClear(w) ==
    With(ForkNextClear(w), LAMBDA r :
        IF r.err # OK \/ r.s.fork.mSproutConsumer = Null THEN r
        ELSE With(TsClear(r.s.objs[r.s.fork.mSproutConsumer]), LAMBDA q :
                 Res([r.s EXCEPT !.objs[r.s.fork.mSproutConsumer] = q.s],
                     q.err)))

\* EventConsumer::addEvent on the forked consumer
ForkAddEvent(w, time, value) ==
    IF time < w.fork.mLastTime THEN Res(w, Causality)
    ELSE With(ForkDoAddEvent(w, time, value), LAMBDA r :
             IF r.err # OK THEN r
             ELSE Res([r.s EXCEPT !.fork.mLastTime = time], OK))

\* EventConsumer::advanceTime on the forked consumer
ForkAdvanceTime(w, time) ==
    IF time < w.fork.mLastTime THEN Res(w, Causality)
    ELSE With(ForkDoAdvanceTime(w, time), LAMBDA r :
             IF r.err # OK THEN r
             ELSE Res([r.s EXCEPT !.fork.mLastTime = time], OK))

\* EventConsumer::clear on the forked consumer
ForkClear(w) == ForkDoClear(w)

\* --------------------------------------- the interpreter of 7-segment LEDs

LED_7SEG_EMPTY_SPACE == 255
LED_7SEG_DASH == 191
LED_7SEG_DECIMAL_DOT == 127

LED_7SEG_DIGITS_MAP == <<192, 249, 164, 176, 153, 146, 130, 248, 128, 144>>

LED_7SEG_LETTERS_MAP ==
    <<136, 131, 198, 161, 134, 142, 130, 137, 249, 225, 133, 199, 200, 171,
      163, 140, 152, 175, 146, 135, 193, 227, 129, 182, 145, 164>>

\* Led7SegInterpreter::INVALID_NUMBER and INVALID_CHAR
INVALID_NUMBER == -1
INVALID_CHAR == "\\x7f"

\* '0' + i and 'a' + i
DigitChars == <<"0", "1", "2", "3", "4", "5", "6", "7", "8", "9">>
LetterChars ==
    <<"a", "b", "c", "d", "e", "f", "g", "h", "i", "j", "k", "l", "m", "n",
      "o", "p", "q", "r", "s", "t", "u", "v", "w", "x", "y", "z">>

\* Led7SegInterpreter::getDigitRaw; "res | ~LED_7SEG_DECIMAL_DOT", kept in a
\* std::uint8_t, sets the bit that LED_7SEG_DECIMAL_DOT has clear
GetDigitRaw(state, idx, maskDecimalDot) ==
    With(BitArrayGet(state, 8, idx * 8, 8), LAMBDA res :
        IF maskDecimalDot /\ res <= LED_7SEG_DECIMAL_DOT
        THEN res + (255 - LED_7SEG_DECIMAL_DOT)
        ELSE res)

\* lookupOthers of getCharacter: the letters in the order they are stored,
\* then the space and the dash
LookupOthers(glyph) ==
    IF glyph = LED_7SEG_DASH THEN <<"-">>
    ELSE IF glyph = LED_7SEG_EMPTY_SPACE THEN <<" ">>
    ELSE LET at == {i \in 1..26 : LED_7SEG_LETTERS_MAP[i] = glyph}
         IN IF at = {} THEN <<>>
            ELSE <<LetterChars[CHOOSE i \in at : \A j \in at : j <= i]>>

\* lookupDigits of getCharacter
LookupDigits(glyph) ==
    LET at == {i \in 1..10 : LED_7SEG_DIGITS_MAP[i] = glyph}
    IN IF at = {} THEN <<>>
       ELSE <<DigitChars[CHOOSE i \in at : \A j \in at : j <= i]>>

\* Led7SegInterpreter::getCharacter
GetCharacter(state, idx, preferDigitsOverLetters) ==
    With(GetDigitRaw(state, idx, TRUE), LAMBDA glyph :
    With(LookupDigits(glyph), LAMBDA itDigit :
    With(LookupOthers(glyph), LAMBDA itOther :
        IF itDigit # <<>> /\ itOther # <<>>
        THEN IF preferDigitsOverLetters THEN itDigit[1] ELSE itOther[1]
        ELSE IF itDigit # <<>> THEN itDigit[1]
        ELSE IF itOther # <<>> THEN itOther[1]
        ELSE INVALID_CHAR)))

\* Led7SegInterpreter::getDigit
GetDigit(state, idx, detectSpaceAsZero) ==
    With(GetCharacter(state, idx, TRUE), LAMBDA ch :
        IF detectSpaceAsZero /\ ch = " " THEN 0
        ELSE IF \E i \in 1..10 : DigitChars[i] = ch
        THEN (CHOOSE i \in 1..10 : DigitChars[i] = ch) - 1
        ELSE INVALID_NUMBER)

\* the first loop of getNumber: the index of the first nonempty glyph
RECURSIVE NumberSkip(_, _, _)
NumberSkip(state, DIGITS, idx) ==
    IF idx < DIGITS /\ GetDigitRaw(state, idx, TRUE) = LED_7SEG_EMPTY_SPACE
    THEN NumberSkip(state, DIGITS, idx + 1)
    ELSE idx

NumberShift_Add(res, digit) == res + digit

\* "res = (res * 10) + digit"
NumberShift(res, digit) == (res * 10) + digit

\* the last loop of getNumber: the remaining digits
RECURSIVE NumberDigits(_, _, _, _)
NumberDigits(state, DIGITS, idx, res) ==
    IF idx < DIGITS
    THEN With(GetDigit(state, idx, FALSE), LAMBDA digit :
             IF digit = INVALID_NUMBER THEN [ok |-> FALSE, res |-> res]
             ELSE NumberDigits(state, DIGITS, idx + 1,
                               NumberShift(res, digit)))
    ELSE [ok |-> TRUE, res |-> res]

\* Led7SegInterpreter<DIGITS>::getNumber
GetNumber(state, DIGITS) ==
    With(NumberSkip(state, DIGITS, 0), LAMBDA first :
        LET negative == first < DIGITS
                        /\ GetDigitRaw(state, first, TRUE) = LED_7SEG_DASH
            idx == IF negative THEN first + 1 ELSE first
        IN IF idx >= DIGITS THEN INVALID_NUMBER
           ELSE With(NumberDigits(state, DIGITS, idx, 0), LAMBDA r :
                    IF ~r.ok THEN INVALID_NUMBER
                    ELSE IF negative THEN 0 - r.res ELSE r.res))

\* Led7SegInterpreterTest::create: the state of the interpreter it returns
RECURSIVE Create(_, _, _)
Create(state, digits, offset) ==
    IF digits = <<>> THEN state
    ELSE Create(BitArraySet(state, 8, Head(digits), offset, 8), Tail(digits),
                offset + 8)

\* "data[idx] &= LED_7SEG_DECIMAL_DOT"
WithDecimalDot(glyph) ==
    IF glyph > LED_7SEG_DECIMAL_DOT
    THEN glyph - (255 - LED_7SEG_DECIMAL_DOT) ELSE glyph

\* the while loop of Led7SegInterpreterTest::createNum
RECURSIVE CreateNumLoop(_, _, _, _)
CreateNumLoop(data, num, idx, decimalDot) ==
    IF num # 0 /\ idx > 0
    THEN CreateNumLoop(
             [data EXCEPT ![idx] =
                 IF decimalDot = idx - 1
                 THEN WithDecimalDot(LED_7SEG_DIGITS_MAP[(num % 10) + 1])
                 ELSE LED_7SEG_DIGITS_MAP[(num % 10) + 1]],
             num \div 10, idx - 1, decimalDot)
    ELSE [data |-> data, idx |-> idx]

\* Led7SegInterpreterTest::createNum: the data it passes to create
CreateNum(num, decimalDot) ==
    With(CreateNumLoop([i \in 1..4 |-> LED_7SEG_EMPTY_SPACE],
                       IF num < 0 THEN 0 - num ELSE num, 4, decimalDot),
         LAMBDA r :
            IF r.idx > 0 /\ num < 0
            THEN [r.data EXCEPT ![r.idx] = LED_7SEG_DASH]
            ELSE r.data)

\* ------------------------------------------------------------------ state

VARIABLES
    fts,            \* a FutureTimeSeries<int> driven directly
    series,         \* the TimeSeries<int> attached as its next consumer
    adds,           \* number of addEvent / addFutureEvent calls made on fts
    mCurrentTime,   \* ArduinoEmulator::mCurrentTime
    mPins,          \* ArduinoEmulator::mPins
    mInputs,        \* ArduinoEmulator::mInputs (its keys)
    mInputBuffers,  \* ArduinoSimulationController::mInputBuffers
    mEnable,        \* the mEnable... flags, by the name of mEnableMethodFlags
    nextId,         \* number of enqueuePinValueChange calls made
    seenId,         \* nextId at the last advanceCurrentTimeBy
    calls,          \* number of calls the tested program has made
    mSerialData,    \* ArduinoEmulator::mSerialData
    mSerialInput,   \* ArduinoSimulationController::mSerialInput
    run,            \* the driver of the controller that is running
    trace,          \* what that driver has done, in order
    iters,          \* number of invocations of loop() so far
    accepted,       \* the strings enqueueSerialInputEvent has accepted
    taken,          \* the chars the tested program has read
    filter,         \* a demultiplexer or an aggregator with its TimeSeries
    feed,           \* the events the filter has accepted, in order
    phases,         \* DemultiplexingTest: where its second phase starts and
                    \* the time it advances to at the end
    display,        \* a SerialSegLedDisplay<4> with its sprout TimeSeries
    events,         \* number of pin events handed to the display
    given,          \* the objects a query is made on
    ret,            \* the last query made and what it returned
    last            \* the last call made and how it ended

chainVars == <<fts, series, adds>>
emuVars == <<mCurrentTime, mPins, mInputs, mInputBuffers, mEnable, nextId,
             seenId, calls>>
serVars == <<mSerialData, mSerialInput, run, trace, iters, accepted, taken>>
ledVars == <<filter, feed, phases, display, events>>
funVars == <<given, ret>>
vars == <<fts, series, adds, mCurrentTime, mPins, mInputs, mInputBuffers,
          mEnable, nextId, seenId, calls, mSerialData, mSerialInput, run,
          trace, iters, accepted, taken, filter, feed, phases, display,
          events, given, ret, last>>

NoCall ==
    [op |-> "init", time |-> 0, value |-> 0, err |-> OK, out |-> <<>>,
     prev |-> "init"]

ChainIdle ==
    /\ fts = NewFutureTimeSeries
    /\ series = NewTimeSeries
    /\ adds = 0

EmuIs(e) ==
    /\ mCurrentTime = e.mCurrentTime
    /\ mPins = e.mPins
    /\ mInputs = e.mInputs
    /\ mInputBuffers = e.mInputBuffers
    /\ mEnable = e.mEnable

EmuIdle ==
    /\ EmuIs(NewEmulator)
    /\ nextId = 0
    /\ seenId = 0
    /\ calls = 0

\* no filter has been constructed
LedIdle ==
    /\ filter = NoConsumer
    /\ feed = <<>>
    /\ phases = <<>>

\* no display has been constructed
SegIdle ==
    /\ display = NoConsumer
    /\ events = 0

\* no query has been made
FunIdle ==
    /\ given = <<>>
    /\ ret = <<>>

SerIdle ==
    /\ mSerialData = <<>>
    /\ mSerialInput = <<>>
    /\ run = NoRun
    /\ trace = <<>>
    /\ iters = 0
    /\ accepted = <<>>
    /\ taken = <<>>

\* ------------------------------------------- the chain driven directly

\* prev is the name of the call made before this one
Call(op, time, value, err, out) ==
    [op |-> op, time |-> time, value |-> value, err |-> err, out |-> out,
     prev |-> last.op]

ChainInit ==
    /\ ChainIdle /\ EmuIdle /\ SerIdle /\ LedIdle /\ SegIdle /\ FunIdle
    /\ last = NoCall

\* fts.addEvent(time, value)
AddEvent(time, value) ==
    /\ adds < MaxAdds
    /\ LET r == FtsAddEvent(fts, series, time, value, adds)
       IN /\ fts' = r.f
          /\ series' = r.n
          /\ last' = Call("addEvent", time, value, r.err, r.out)
    /\ adds' = adds + 1
    /\ UNCHANGED <<emuVars, serVars, ledVars, funVars>>

\* fts.addFutureEvent(time, value)
AddFutureEvent(time, value) ==
    /\ adds < MaxAdds
    /\ LET r == FtsAddFutureEvent(fts, time, value, adds)
       IN /\ fts' = r.s
          /\ last' = Call("addFutureEvent", time, value, r.err, <<>>)
    /\ adds' = adds + 1
    /\ UNCHANGED <<series, emuVars, serVars, ledVars, funVars>>

\* fts.advanceTime(time)
AdvanceTime(time) ==
    /\ LET r == FtsAdvanceTime(fts, series, time)
       IN /\ fts' = r.f
          /\ series' = r.n
          /\ last' = Call("advanceTime", time, 0, r.err, r.out)
    /\ UNCHANGED <<adds, emuVars, serVars, ledVars, funVars>>

\* fts.clear()
Clear ==
    /\ LET r == FtsClear(fts, series)
       IN /\ fts' = r.f
          /\ series' = r.n
          /\ last' = Call("clear", 0, 0, r.err, <<>>)
    /\ UNCHANGED <<adds, emuVars, serVars, ledVars, funVars>>

ChainNext ==
    \/ \E t \in 0..MaxT, v \in Values : AddEvent(t, v)
    \/ \E t \in 0..MaxT, v \in Values : AddFutureEvent(t, v)
    \/ \E t \in 0..MaxT : AdvanceTime(t)
    \/ Clear

\* a future time series and its next consumer under every call
SpecChain == ChainInit /\ [][ChainNext]_vars

FutureNext ==
    \/ \E t \in 0..MaxT, v \in Values : AddFutureEvent(t, v)
    \/ \E t \in 0..MaxT : AdvanceTime(t)

\* a future time series fed by addFutureEvent only
SpecFuture == ChainInit /\ [][FutureNext]_vars

\* ------------------------------------- the emulator and its controller

Emu ==
    [mCurrentTime |-> mCurrentTime, mPins |-> mPins, mInputs |-> mInputs,
     mInputBuffers |-> mInputBuffers, mEnable |-> mEnable]

\* the call op(pin, arg) ended as r says
Done(op, pin, arg, r) ==
    /\ \E v \in {r} :
          /\ mCurrentTime' = v.e.mCurrentTime
          /\ mPins' = v.e.mPins
          /\ mInputs' = v.e.mInputs
          /\ mInputBuffers' = v.e.mInputBuffers
          /\ mEnable' = v.e.mEnable
          /\ last' = [op |-> op, pin |-> pin, arg |-> arg, ret |-> v.ret,
                      err |-> v.err]
    /\ UNCHANGED <<chainVars, serVars, ledVars, funVars>>

\* a call of the tested program: it ends in advanceCurrentTimeBy unless it
\* fails before
Timed(op, pin, arg, r) ==
    /\ calls < MaxCalls
    /\ Done(op, pin, arg, r)
    /\ calls' = calls + 1
    /\ seenId' = IF r.err = OK THEN nextId ELSE seenId
    /\ UNCHANGED nextId

\* the test has registered the pins and attached a TimeSeries to each
\* (as FunshieldSimulationController's constructor and attachToSimulation
\* do before anything runs); wiring gives the wiring of each pin
RECURSIVE Wired(_, _, _)
Wired(e, todo, wiring) ==
    IF todo = {} THEN e
    ELSE LET p == Min(todo)
         IN With(EmuRegisterPin(e, p, wiring[p]).e, LAMBDA a :
            With(CtlAttachPinEventsConsumer(a, p).e, LAMBDA b :
                Wired(b, todo \ {p}, wiring)))

NoEmuCall == [op |-> "init", pin |-> 0, arg |-> 0, ret |-> 0, err |-> OK]

EmuInit ==
    /\ ChainIdle
    /\ SerIdle
    /\ LedIdle
    /\ SegIdle
    /\ FunIdle
    /\ \E wiring \in [PinIds -> Wirings] :
          EmuIs(Wired(NewEmulator, PinIds, wiring))
    /\ nextId = 0
    /\ seenId = 0
    /\ calls = 0
    /\ last = NoEmuCall

\* simulation.enqueuePinValueChange(pin, value, delay)
EnqueuePinValueChange(pin, value, delay) ==
    /\ nextId < MaxSched
    /\ Done("enqueuePinValueChange", pin, value,
            CtlEnqueuePinValueChange(Emu, pin, value, delay, nextId))
    /\ nextId' = nextId + 1
    /\ UNCHANGED <<seenId, calls>>

\* pinMode(pin, mode), called by the tested program
PinMode(pin, mode) ==
    Timed("pinMode", pin, mode, EmuPinMode(Emu, pin, mode))

\* digitalWrite(pin, val), called by the tested program
DigitalWrite(pin, val) ==
    Timed("digitalWrite", pin, val, EmuDigitalWrite(Emu, pin, val))

\* digitalRead(pin), called by the tested program
DigitalRead(pin) ==
    Timed("digitalRead", pin, 0, EmuDigitalRead(Emu, pin))

\* delayMicroseconds(us), called by the tested program
DelayMicroseconds(us) ==
    Timed("delayMicroseconds", 0, us, EmuDelayMicroseconds(Emu, us))

EmuNext ==
    \/ \E p \in PinIds, v \in {LOW, HIGH}, d \in EnqueueDelays :
          EnqueuePinValueChange(p, v, d)
    \/ \E p \in PinIds, m \in Modes : PinMode(p, m)
    \/ \E p \in PinIds, v \in {LOW, HIGH} : DigitalWrite(p, v)
    \/ \E p \in PinIds : DigitalRead(p)
    \/ \E us \in Delays : DelayMicroseconds(us)

\* the emulator once the test has wired it: the test schedules input while
\* the tested program calls the API
SpecEmu == EmuInit /\ [][EmuNext]_vars

\* ------------------------------------------ the enable flags of the API

\* DisableFunctionsTest::run before its first testDisableFunction
Fixture ==
    With(EmuRegisterPin(NewEmulator, 1, INPUT).e, LAMBDA a :
    With(EmuPinMode(a, 1, INPUT).e, LAMBDA b :
    With(EmuRegisterPin(b, 2, OUTPUT).e, LAMBDA c :
        EmuPinMode(c, 2, OUTPUT).e)))

\* the call the test makes of the API function name; the functions the
\* test leaves out are called with arguments of the same pins
EmuCall(e, name) ==
    CASE name = "pinMode" -> EmuPinMode(e, 1, INPUT)
      [] name = "digitalWrite" -> EmuDigitalWrite(e, 2, 0)
      [] name = "digitalRead" -> EmuDigitalRead(e, 1)
      [] name = "analogRead" -> EmuAnalogRead(e, 1)
      [] name = "analogReference" -> EmuNotImplemented(e, name)
      [] name = "analogWrite" -> EmuAnalogWrite(e, 2, 0)
      [] name = "millis" -> EmuMillis(e)
      [] name = "micros" -> EmuMicros(e)
      [] name = "delay" -> EmuDelay(e, 1)
      [] name = "delayMicroseconds" -> EmuDelayMicroseconds(e, 1)
      [] name = "pulseIn" -> EmuNotImplemented(e, name)
      [] name = "pulseInLong" -> EmuNotImplemented(e, name)
      [] name = "shiftOut" -> EmuShiftOut(e, 2, 2, LSBFIRST, 0)
      [] name = "shiftIn" -> EmuShiftIn(e, 1, 2, LSBFIRST)
      [] name = "tone" -> EmuNotImplemented(e, name)
      [] name = "noTone" -> EmuNotImplemented(e, name)
      [] name = "serial" -> SerialBegin(e)

\* the names a test may pass to disableMethod and enableMethod
GateNames == MethodNames \cup {"loop"}

\* writes and reads count the digitalWrite and digitalRead calls that
\* returned during the call
NoGateCall ==
    [op |-> "init", name |-> "", err |-> OK, gate |-> "", ret |-> 0,
     writes |-> 0, reads |-> 0]

GateInit ==
    /\ ChainIdle
    /\ SerIdle
    /\ LedIdle
    /\ SegIdle
    /\ FunIdle
    /\ EmuIs(Fixture)
    /\ nextId = 0
    /\ seenId = 0
    /\ calls = 0
    /\ last = NoGateCall

\* the controller call op(name) ended as r says
Flagged(op, name, r) ==
    /\ mEnable' = r.e.mEnable
    /\ last' = [op |-> op, name |-> name, err |-> r.err, gate |-> "",
                ret |-> 0, writes |-> 0, reads |-> 0]
    /\ UNCHANGED <<chainVars, serVars, ledVars, funVars, mCurrentTime, mPins, mInputs,
                   mInputBuffers, nextId, seenId, calls>>

\* simulation.disableMethod(name)
DisableMethod(name) ==
    /\ Cardinality({n \in MethodNames : ~mEnable[n]}) < MaxDisabled
    /\ Flagged("disableMethod", name, CtlSetMethodEnableFlag(Emu, name, FALSE))

\* simulation.enableMethod(name)
EnableMethod(name) ==
    Flagged("enableMethod", name, CtlSetMethodEnableFlag(Emu, name, TRUE))

\* the tested program calls the API function name
ApiCall(name) ==
    /\ calls < MaxGateCalls
    /\ \E r \in {EmuCall(Emu, name)} :
          /\ mCurrentTime' = r.e.mCurrentTime
          /\ mPins' = r.e.mPins
          /\ mInputs' = r.e.mInputs
          /\ mInputBuffers' = r.e.mInputBuffers
          /\ mEnable' = r.e.mEnable
          /\ last' = [op |-> "call", name |-> name, err |-> r.err,
                      gate |-> r.gate, ret |-> r.ret,
                      writes |-> Len(r.wrote), reads |-> r.reads]
    /\ calls' = calls + 1
    /\ UNCHANGED <<chainVars, serVars, ledVars, funVars, nextId, seenId>>

GateNext ==
    \/ \E name \in GateNames : DisableMethod(name)
    \/ \E name \in GateNames : EnableMethod(name)
    \/ \E name \in MethodNames : ApiCall(name)

\* the test of the enable flags: methods are disabled and enabled while the
\* tested program calls the API
SpecGate == GateInit /\ [][GateNext]_vars

\* ------------------------------------------ the drivers and serial input

NoRunCall == [op |-> "init", err |-> OK, ret |-> 0]

RunInit ==
    /\ ChainIdle
    /\ EmuIdle
    /\ SerIdle
    /\ LedIdle
    /\ SegIdle
    /\ FunIdle
    /\ last = NoRunCall

emuState == <<mCurrentTime, mPins, mInputs, mInputBuffers, mEnable>>

\* an entry of trace: loop() was invoked at time, the clock was advanced
\* from from to time, or the callback was called with time and returned ok
Entry(what, from, time) ==
    [what |-> what, from |-> from, time |-> time, ok |-> TRUE]

\* the driver r invokes loop()
InvokeLoop(r, sofar) ==
    /\ iters < MaxIters
    /\ run' = [r EXCEPT !.pc = "body"]
    /\ trace' = Append(sofar, Entry("loop", mCurrentTime, mCurrentTime))
    /\ iters' = iters + 1

\* the driver r returns to the test
Return(r, sofar) ==
    /\ run' = [r EXCEPT !.pc = "idle"]
    /\ trace' = sofar
    /\ iters' = iters

\* simulation.enqueueSerialInputEvent(input, delay)
EnqueueSerialInputEvent(input, delay) ==
    /\ run.pc = "idle"
    /\ nextId < MaxSerial
    /\ \E r \in {CtlEnqueueSerialInputEvent(Emu, mSerialInput, mSerialData,
                                            input, delay)} :
          /\ mSerialInput' = r.q
          /\ accepted' = IF r.err = OK
                         THEN Append(accepted, r.q[Len(r.q)]) ELSE accepted
          /\ last' = [op |-> "enqueueSerialInputEvent", err |-> r.err,
                      ret |-> 0]
    /\ nextId' = nextId + 1
    /\ UNCHANGED <<chainVars, ledVars, funVars, emuState, seenId, calls, mSerialData,
                   run, trace, iters, taken>>

\* simulation.runSingleLoop(loopDelay), up to the invocation of loop()
RunSingleLoop(loopDelay) ==
    /\ run.pc = "idle"
    /\ InvokeLoop(NewRun("single", 0, 0, 0, loopDelay, mCurrentTime), <<>>)
    /\ last' = [op |-> "runSingleLoop", err |-> OK, ret |-> 0]
    /\ UNCHANGED <<chainVars, ledVars, funVars, emuVars, mSerialData, mSerialInput,
                   accepted, taken>>

\* simulation.runMultipleLoops(count, loopDelay, callback), up to the first
\* invocation of loop() or, if there is none, to its return
RunMultipleLoops(count, loopDelay) ==
    /\ run.pc = "idle"
    /\ LET r == NewRun("multiple", count, count, 0, loopDelay, mCurrentTime)
       IN IF MultipleContinues(count) THEN InvokeLoop(r, <<>>)
          ELSE Return(r, <<>>)
    /\ last' = [op |-> "runMultipleLoops", err |-> OK, ret |-> 0]
    /\ UNCHANGED <<chainVars, ledVars, funVars, emuVars, mSerialData, mSerialInput,
                   accepted, taken>>

\* simulation.runLoopsForPeriod(period, loopDelay, callback), up to the
\* first invocation of loop() or, if there is none, to its return
RunLoopsForPeriod(period, loopDelay) ==
    /\ run.pc = "idle"
    /\ LET endTime == mCurrentTime + period
           r == NewRun("period", period, 0, endTime, loopDelay, mCurrentTime)
       IN IF PeriodContinues(mCurrentTime, endTime) THEN InvokeLoop(r, <<>>)
          ELSE Return(r, <<>>)
    /\ last' = [op |-> "runLoopsForPeriod", err |-> OK, ret |-> 0]
    /\ UNCHANGED <<chainVars, ledVars, funVars, emuVars, mSerialData, mSerialInput,
                   accepted, taken>>

\* delay(ms), called by loop()
BodyDelay(ms) ==
    /\ run.pc = "body"
    /\ calls < MaxRunCalls
    /\ \E r \in {EmuDelay(Emu, ms)} :
          /\ mCurrentTime' = r.e.mCurrentTime
          /\ mPins' = r.e.mPins
          /\ mInputs' = r.e.mInputs
          /\ mInputBuffers' = r.e.mInputBuffers
          /\ mEnable' = r.e.mEnable
          /\ last' = [op |-> "delay", err |-> r.err, ret |-> 0]
    /\ calls' = calls + 1
    /\ UNCHANGED <<chainVars, serVars, ledVars, funVars, nextId, seenId>>

\* Serial.read(), called by loop()
BodySerialRead ==
    /\ run.pc = "body"
    /\ calls < MaxRunCalls
    /\ \E r \in {SerialRead(Emu, mSerialData)} :
          /\ mSerialData' = r.data
          /\ taken' = IF r.ret = -1 THEN taken ELSE Append(taken, r.ret)
          /\ last' = [op |-> "Serial.read", err |-> r.err, ret |-> r.ret]
    /\ calls' = calls + 1
    /\ UNCHANGED <<chainVars, ledVars, funVars, emuState, nextId, seenId,
                   mSerialInput, run, trace, iters, accepted>>

\* loop() returns: the rest of runSingleLoop and, in runMultipleLoops and
\* runLoopsForPeriod, the call of the callback
LoopReturns ==
    /\ run.pc = "body"
    /\ \E r \in {CtlAdvanceCurrentTimeBy(Emu, mSerialInput, mSerialData,
                                         run.loopDelay)} :
          /\ mCurrentTime' = r.e.mCurrentTime
          /\ mPins' = r.e.mPins
          /\ mInputs' = r.e.mInputs
          /\ mInputBuffers' = r.e.mInputBuffers
          /\ mEnable' = r.e.mEnable
          /\ mSerialInput' = r.q
          /\ mSerialData' = r.data
          /\ LET advanced == Append(trace, Entry("advance", mCurrentTime,
                                                 r.e.mCurrentTime))
                 called == Append(advanced, Entry("cb", r.e.mCurrentTime,
                                                  r.e.mCurrentTime))
             IN CASE run.driver = "single" ->
                       /\ run' = [run EXCEPT !.pc = "idle"]
                       /\ trace' = advanced
                  [] run.driver = "multiple" ->
                       /\ run' = [run EXCEPT !.pc = "callback",
                                             !.count = @ - 1]
                       /\ trace' = called
                  [] run.driver = "period" ->
                       /\ run' = [run EXCEPT !.pc = "callback"]
                       /\ trace' = called
          /\ last' = [op |-> "loop", err |-> r.err, ret |-> 0]
    /\ UNCHANGED <<chainVars, ledVars, funVars, nextId, seenId, calls, iters, accepted,
                   taken>>

\* the callback returns ok: the driver leaves its loop, invokes loop()
\* again or returns
CallbackReturns(ok) ==
    /\ run.pc = "callback"
    /\ LET sofar == [trace EXCEPT ![Len(trace)].ok = ok]
           continues == IF run.driver = "multiple"
                        THEN MultipleContinues(run.count)
                        ELSE PeriodContinues(mCurrentTime, run.endTime)
       IN IF ok /\ continues THEN InvokeLoop(run, sofar)
          ELSE Return(run, sofar)
    /\ last' = [op |-> "callback", err |-> OK, ret |-> IF ok THEN 1 ELSE 0]
    /\ UNCHANGED <<chainVars, ledVars, funVars, emuVars, mSerialData, mSerialInput,
                   accepted, taken>>

RunNext ==
    \/ \E input \in SerialStrings, delay \in SerialDelays :
          EnqueueSerialInputEvent(input, delay)
    \/ \E d \in LoopDelays : RunSingleLoop(d)
    \/ \E n \in 0..MaxCount, d \in LoopDelays : RunMultipleLoops(n, d)
    \/ \E p \in 0..MaxPeriod, d \in LoopDelays : RunLoopsForPeriod(p, d)
    \/ \E ms \in Millis : BodyDelay(ms)
    \/ BodySerialRead
    \/ LoopReturns
    \/ \E ok \in BOOLEAN : CallbackReturns(ok)

\* the test schedules serial input and runs loop() through the drivers of
\* the controller; loop() calls delay and reads the serial line
SpecRun == RunInit /\ [][RunNext]_vars

\* ------------------------------------------- the filters under every call

NoLedCall == [op |-> "init", time |-> 0, value |-> {}, err |-> OK]

\* the filter becomes what r says after the call op(time, value)
Filtered(op, time, value, r) ==
    /\ filter' = r.s
    /\ last' = [op |-> op, time |-> time, value |-> value, err |-> r.err]
    /\ UNCHANGED <<mCurrentTime, mPins, mInputs, mInputBuffers, mEnable,
                   nextId, seenId, calls, serVars, display, events,
                   funVars>>

\* LedsEventsDemultiplexer<2> demuxer(w, t); TimeSeries output;
\* demuxer.attachNextConsumer(output);
DemuxInit ==
    /\ ChainIdle
    /\ EmuIdle
    /\ SerIdle
    /\ SegIdle
    /\ FunIdle
    /\ \E p \in DemuxParams :
          filter = NewDemultiplexer(2, p[1], p[2], NewTimeSeries)
    /\ feed = <<>>
    /\ phases = <<>>
    /\ last = NoLedCall

\* demuxer.addEvent(time, state)
DemuxFeed(time, state) ==
    /\ Len(feed) < MaxFeed
    /\ \E r \in {DemuxAddEvent(filter, time, state)} :
          /\ Filtered("addEvent", time, state, r)
          /\ feed' = IF r.err = OK
                     THEN Append(feed, [time |-> time, value |-> state])
                     ELSE feed
    /\ UNCHANGED <<chainVars, phases>>

\* demuxer.advanceTime(time)
DemuxAdvance(time) ==
    /\ Filtered("advanceTime", time, {}, DemuxAdvanceTime(filter, time))
    /\ UNCHANGED <<chainVars, feed, phases>>

DemuxNext ==
    \/ \E t \in 0..MaxLedT, v \in LedStates : DemuxFeed(t, v)
    \/ \E t \in 0..MaxLedT : DemuxAdvance(t)

\* a demultiplexer in front of a time series, under every call
SpecDemux == DemuxInit /\ [][DemuxNext]_vars

\* LedsEventsAggregator<2> aggregator(w); TimeSeries output;
\* aggregator.attachNextConsumer(output);
AggrInit ==
    /\ ChainIdle
    /\ EmuIdle
    /\ SerIdle
    /\ SegIdle
    /\ FunIdle
    /\ \E w \in AggrParams : filter = NewAggregator(w, NewTimeSeries)
    /\ feed = <<>>
    /\ phases = <<>>
    /\ last = NoLedCall

\* aggregator.addEvent(time, state)
AggrFeed(time, state) ==
    /\ Len(feed) < MaxFeed
    /\ \E r \in {AggrAddEvent(filter, time, state)} :
          /\ Filtered("addEvent", time, state, r)
          /\ feed' = IF r.err = OK
                     THEN Append(feed, [time |-> time, value |-> state])
                     ELSE feed
    /\ UNCHANGED <<chainVars, phases>>

\* aggregator.advanceTime(time)
AggrAdvance(time) ==
    /\ Filtered("advanceTime", time, {}, AggrAdvanceTime(filter, time))
    /\ UNCHANGED <<chainVars, feed, phases>>

AggrNext ==
    \/ \E t \in 0..MaxLedT, v \in LedStates : AggrFeed(t, v)
    \/ \E t \in 0..MaxLedT : AggrAdvance(t)

\* an aggregator in front of a time series, under every call
SpecAggr == AggrInit /\ [][AggrNext]_vars

\* -------------------------------------------------- DemultiplexingTest

\* the state DemultiplexingTest adds with the time ts: LEDs 1 and 2 in turns
\* before switch, LEDs 0 and 3 in turns from switch on
TestState(ts, switch) ==
    IF ts < switch
    THEN (IF ts % 2 = 1 THEN {1} ELSE {2})
    ELSE (IF (ts - switch) % 2 = 0 THEN {0} ELSE {3})

\* LedsEventsDemultiplexer<4> demuxer(20, 2); TimeSeries<leds_t> output;
\* demuxer.attachNextConsumer(output);
TestInit ==
    /\ ChainIdle
    /\ EmuIdle
    /\ SerIdle
    /\ SegIdle
    /\ FunIdle
    /\ filter = NewDemultiplexer(4, 20, 2, NewTimeSeries)
    /\ feed = <<>>
    /\ phases \in TestPhases
    /\ last = NoLedCall

\* input.advanceTime(ts), one round of the loop of consumeEventsUntil: the
\* events the test has added to input, one per microsecond from 1 to the
\* microsecond before the final time, are handed to demuxer.addEvent in the
\* order of their times
TestConsume ==
    /\ last.op \in {"init", "addEvent"}
    /\ last.err = OK
    /\ adds + 1 < phases[2]
    /\ Filtered("addEvent", adds + 1, TestState(adds + 1, phases[1]),
                DemuxAddEvent(filter, adds + 1,
                              TestState(adds + 1, phases[1])))
    /\ adds' = adds + 1
    /\ UNCHANGED <<fts, series, feed, phases>>

\* input.advanceTime(ts), from the end of that loop to its return:
\* demuxer.advanceTime(ts)
TestAdvanceTime ==
    /\ last.op \in {"init", "addEvent"}
    /\ last.err = OK
    /\ adds + 1 = phases[2]
    /\ Filtered("advanceTime", phases[2], {},
                DemuxAdvanceTime(filter, phases[2]))
    /\ UNCHANGED <<adds, fts, series, feed, phases>>

TestNext ==
    \/ TestConsume
    \/ TestAdvanceTime

\* the run of DemultiplexingTest, as its demultiplexer sees it
SpecDemuxTest == TestInit /\ [][TestNext]_vars

\* ------------------------------------------- the display under pin events

NoSegCall ==
    [op |-> "init", time |-> 0, pin |-> data_pin, value |-> LOW,
     latch |-> FALSE, err |-> OK]

\* the shift register that holds the digit-select byte and the glyph byte
RegisterOf(content) ==
    [i \in 1..16 |-> IF i <= 8 THEN BitRead(content[1], i - 1)
                     ELSE BitRead(content[2], i - 9)]

\* SerialSegLedDisplay<4> display; TimeSeries<state_t> states;
\* display.attachSproutConsumer(states); display.attachToSimulation(...);
\* then the clock pin has pushed 16 bits of the data pin, the latch LOW
SegInit ==
    /\ ChainIdle
    /\ EmuIdle
    /\ SerIdle
    /\ LedIdle
    /\ FunIdle
    /\ \E content \in SegContents : \E reg \in {RegisterOf(content)} :
          display = [NewSegDisplay(4) EXCEPT !.mShiftRegister = reg,
                                             !.mDataInput = reg[1]]
    /\ events = 0
    /\ last = NoSegCall

\* display.addEvent(time, ArduinoPinState(pin, value))
SegEvent(time, pin, value) ==
    /\ events < MaxSegEvents
    /\ \E r \in {SegAddEvent(display, time, pin, value)} :
          /\ display' = r.s
          /\ last' = [op |-> "addEvent", time |-> time, pin |-> pin,
                      value |-> value, latch |-> display.mLatch,
                      err |-> r.err]
    /\ events' = events + 1
    /\ UNCHANGED <<chainVars, emuVars, serVars, filter, feed, phases,
                   funVars>>

SegNext ==
    \E t \in 0..MaxSegT, pin \in SegPins, v \in {LOW, HIGH} :
        SegEvent(t, pin, v)

\* the 7-segment display under every sequence of pin events
SpecSeg == SegInit /\ [][SegNext]_vars

\* ---------------------------------------------- two series being compared

\* fillTs of TimeSeriesCompareTest: the series after addFutureEvent(time,
\* ++counter) for each of the times
RECURSIVE FillTimes(_, _, _)
FillTimes(ts, times, counter) ==
    IF times = <<>> THEN ts
    ELSE FillTimes(FtsAddFutureEvent(ts, Head(times), counter + 1, 0).s,
                   Tail(times), counter + 1)

\* FutureTimeSeries<int> ts1, ts2; either empty or filled as
\* TimeSeriesCompareTest fills them
CompareInit ==
    /\ ChainIdle
    /\ EmuIdle
    /\ SerIdle
    /\ LedIdle
    /\ SegIdle
    /\ \/ given = [ts1 |-> NewFutureTimeSeries, ts2 |-> NewFutureTimeSeries]
       \/ given = [ts1 |-> FillTimes(NewFutureTimeSeries, CmpTestTimes[1], 0),
                   ts2 |-> FillTimes(NewFutureTimeSeries, CmpTestTimes[2], 0)]
    /\ ret = <<>>
    /\ last = NoCall

\* ts1.addFutureEvent(time, value)
CompareFill1(time, value) ==
    /\ Len(given.ts1.mEvents) < MaxCmpEvents
    /\ given' = [given EXCEPT !.ts1 = FtsAddFutureEvent(@, time, value, 0).s]
    /\ ret' = <<>>
    /\ UNCHANGED <<chainVars, emuVars, serVars, ledVars, last>>

\* ts2.addFutureEvent(time, value)
CompareFill2(time, value) ==
    /\ Len(given.ts2.mEvents) < MaxCmpEvents
    /\ given' = [given EXCEPT !.ts2 = FtsAddFutureEvent(@, time, value, 0).s]
    /\ ret' = <<>>
    /\ UNCHANGED <<chainVars, emuVars, serVars, ledVars, last>>

\* res = ts1.compare(ts2, Range(start, end), initial);
\* res2 = ts2.compare(ts1, Range(start, end), initial);
Compare(start, end, initial) ==
    /\ \E range \in {NewRange(start, end)} :
          ret' = [op |-> "compare", range |-> range, initial |-> initial,
                  res |-> TsCompare(given.ts1, given.ts2, range, initial),
                  res2 |-> TsCompare(given.ts2, given.ts1, range, initial)]
    /\ UNCHANGED <<chainVars, emuVars, serVars, ledVars, given, last>>

CompareNext ==
    \/ \E t \in 0..MaxCmpT, v \in Values : CompareFill1(t, v)
    \/ \E t \in 0..MaxCmpT, v \in Values : CompareFill2(t, v)
    \/ \E start \in 0..MaxCmpT, end \in (0..MaxCmpT) \cup {CmpTestTimes[3]},
          initial \in Values : Compare(start, end, initial)

\* two time series filled in any order, and compared over every range
SpecCompare == CompareInit /\ [][CompareNext]_vars

\* ------------------------------------------------- a series being searched

\* fillTs of TimeSeriesFindSelectedSubseqTest: the series after
\* addFutureEvent(time += period, val) for each of the values
RECURSIVE FillValues(_, _, _, _)
FillValues(ts, values, time, period) ==
    IF values = <<>> THEN ts
    ELSE FillValues(FtsAddFutureEvent(ts, time + period, Head(values), 0).s,
                    Tail(values), time + period, period)

\* FutureTimeSeries<int> ts1, ts2; either empty or filled as the last case
\* of TimeSeriesFindSelectedSubseqTest fills them
FindInit ==
    /\ ChainIdle
    /\ EmuIdle
    /\ SerIdle
    /\ LedIdle
    /\ SegIdle
    /\ \/ given = [ts1 |-> NewFutureTimeSeries, ts2 |-> NewFutureTimeSeries]
       \/ given = [ts1 |-> FillValues(NewFutureTimeSeries, FindTestValues[1],
                                      0, 100),
                   ts2 |-> FillValues(NewFutureTimeSeries, FindTestValues[2],
                                      0, 100)]
    /\ ret = <<>>
    /\ last = NoCall

\* the next step of fillTs(haystack, ts1)
FindFill1(val) ==
    /\ Len(given.ts1.mEvents) < MaxHay
    /\ given' = [given EXCEPT !.ts1 =
                    FillValues(@, <<val>>, 100 * Len(@.mEvents), 100)]
    /\ ret' = <<>>
    /\ UNCHANGED <<chainVars, emuVars, serVars, ledVars, last>>

\* the next step of fillTs(needle, ts2)
FindFill2(val) ==
    /\ Len(given.ts2.mEvents) < MaxNeedle
    /\ given' = [given EXCEPT !.ts2 =
                    FillValues(@, <<val>>, 100 * Len(@.mEvents), 100)]
    /\ ret' = <<>>
    /\ UNCHANGED <<chainVars, emuVars, serVars, ledVars, last>>

\* res = ts1.findSelectedSubsequence(ts2, mapping)
FindSelectedSubsequence ==
    /\ \E r \in {TsFindSelectedSubsequence(given.ts1, given.ts2)} :
          ret' = [op |-> "findSelectedSubsequence", res |-> r.res,
                  mapping |-> r.mapping, err |-> r.err]
    /\ UNCHANGED <<chainVars, emuVars, serVars, ledVars, given, last>>

\* ts1.findSubsequence(needle), with beyond what lies past the end of the
\* vector of ts1
FindSubsequence(beyond) ==
    /\ \E r \in {TsFindSubsequence(given.ts1, ValuesOf(given.ts2), beyond)} :
          ret' = [op |-> "findSubsequence", range |-> r.range,
                  past |-> r.past, err |-> r.err]
    /\ UNCHANGED <<chainVars, emuVars, serVars, ledVars, given, last>>

FindNext ==
    \/ \E v \in FindValues : FindFill1(v)
    \/ \E v \in FindValues : FindFill2(v)
    \/ FindSelectedSubsequence
    \/ \E beyond \in [1..MaxNeedle -> FindValues \cup {0}] :
          FindSubsequence(beyond)

\* a series and a sequence filled value by value, and the searches
SpecFind == FindInit /\ [][FindNext]_vars

\* ------------------------------------------- a forked consumer under calls

\* ForkedEventConsumer<int, int> fork; TimeSeries<int> next1, next2,
\* sprout1;
ForkInit ==
    /\ ChainIdle
    /\ EmuIdle
    /\ SerIdle
    /\ LedIdle
    /\ SegIdle
    /\ given = [fork |-> NewForkedEventConsumer,
                objs |-> [n \in NextNames \cup SproutNames |-> NewTimeSeries]]
    /\ ret = <<>>
    /\ last = NoCall

\* the forked consumer and the series become what r says after the call op
Forked(op, name, time, value, r) ==
    /\ given' = r.s
    /\ ret' = [op |-> op, name |-> name, time |-> time, value |-> value,
               err |-> r.err, was |-> given]
    /\ UNCHANGED <<chainVars, emuVars, serVars, ledVars, last>>

\* the links of the forked consumer become what r says
Linked(op, name, r) ==
    Forked(op, name, 0, 0, Res([given EXCEPT !.fork = r.s], r.err))

\* fork.attachNextConsumer(name)
ForkAttachNext(name) ==
    Linked("attachNextConsumer", name, AttachNextConsumer(given.fork, name))

\* fork.detachNextConsumer()
ForkDetachNext ==
    Linked("detachNextConsumer", Null, DetachNextConsumer(given.fork))

\* fork.attachSproutConsumer(name)
ForkAttachSprout(name) ==
    Linked("attachSproutConsumer", name,
           AttachSproutConsumer(given.fork, name))

\* fork.detachSproutConsumer()
ForkDetachSprout ==
    Linked("detachSproutConsumer", Null, DetachSproutConsumer(given.fork))

\* no series grows beyond MaxForkEvents events
ForkBounded(w) ==
    \A n \in DOMAIN w.objs : Len(w.objs[n].mEvents) <= MaxForkEvents

\* fork.addEvent(time, value)
ForkAdd(time, value) ==
    \E r \in {ForkAddEvent(given, time, value)} :
        /\ ForkBounded(r.s)
        /\ Forked("addEvent", Null, time, value, r)

\* fork.advanceTime(time)
ForkAdvance(time) ==
    Forked("advanceTime", Null, time, 0, ForkAdvanceTime(given, time))

\* fork.clear()
ForkClearAll == Forked("clear", Null, 0, 0, ForkClear(given))

\* name.addEvent(time, value), on one of the series directly
ForkSeriesAdd(name, time, value) ==
    \E r \in {TsAddEvent(given.objs[name], time, value)} :
        /\ Len(r.s.mEvents) <= MaxForkEvents
        /\ Forked("addEvent", name, time, value,
                  Res([given EXCEPT !.objs[name] = r.s], r.err))

ForkNext ==
    \/ \E n \in NextNames : ForkAttachNext(n)
    \/ ForkDetachNext
    \/ \E n \in SproutNames : ForkAttachSprout(n)
    \/ ForkDetachSprout
    \/ \E t \in 0..MaxForkT, v \in Values : ForkAdd(t, v)
    \/ \E t \in 0..MaxForkT : ForkAdvance(t)
    \/ ForkClearAll
    \/ \E n \in NextNames \cup SproutNames, t \in 0..MaxForkT, v \in Values :
          ForkSeriesAdd(n, t, v)

\* a forked consumer and three series, under every call
SpecFork == ForkInit /\ [][ForkNext]_vars

\* ------------------------------------------------ a bit array under calls

\* BitArray<BaN> ba(initialValue), or the BitArray<30> ba of BitArrayTest
BaInit ==
    /\ ChainIdle
    /\ EmuIdle
    /\ SerIdle
    /\ LedIdle
    /\ SegIdle
    /\ \/ \E initialValue \in BOOLEAN :
             given = [ba |-> NewBitArray(BaN, initialValue)]
       \/ given = [ba |-> NewBitArray(30, FALSE)]
    /\ ret = <<>>
    /\ last = NoCall

\* the bit array is now ba, after the call op has returned res
BaCalled(op, width, input, offset, count, res, ba) ==
    /\ given' = [ba |-> ba]
    /\ ret' = [op |-> op, width |-> width, input |-> input,
               offset |-> offset, count |-> count, res |-> res,
               was |-> given.ba]
    /\ UNCHANGED <<chainVars, emuVars, serVars, ledVars, last>>

\* ba.set<T>(input, offset, count); the array of BitArrayTest takes the
\* call of the test only
BaSet(width, input, offset, count) ==
    /\ width < 32 => input < 2 ^ width
    /\ BitArraySize(given.ba) = 30 =>
          /\ width = 32 /\ input = BaMagic /\ offset = 0 /\ count = 32
          /\ given.ba = NewBitArray(30, FALSE)
    /\ BaCalled("set", width, input, offset, count, 0,
                BitArraySet(given.ba, width, input, offset, count))

\* ba.get<T>(offset, count)
BaGet(width, offset, count) ==
    BaCalled("get", width, 0, offset, count,
             BitArrayGet(given.ba, width, offset, count), given.ba)

\* ba.set<T>(ba.get<T>(offset, count), offset, count)
BaSetGet(width, offset, count) ==
    \E got \in {BitArrayGet(given.ba, width, offset, count)} :
        BaCalled("set(get)", width, got, offset, count, 0,
                 BitArraySet(given.ba, width, got, offset, count))

BaNext ==
    \/ \E w \in BaWidths, v \in BaInputs, o \in BaOffsets, c \in BaCounts :
          BaSet(w, v, o, c)
    \/ \E w \in BaWidths, o \in BaOffsets, c \in BaCounts : BaGet(w, o, c)
    \/ \E w \in BaWidths, o \in BaOffsets, c \in BaCounts : BaSetGet(w, o, c)

\* a bit array under set and get
SpecBits == BaInit /\ [][BaNext]_vars

\* -------------------------------------------- a shift register under calls

\* ShiftRegister reg(size); pushes are the bits pushed so far, m the rest of
\* the word being pushed, i the number of its bits pushed, done the words
\* pushed
RegInit ==
    /\ ChainIdle
    /\ EmuIdle
    /\ SerIdle
    /\ LedIdle
    /\ SegIdle
    /\ \E size \in ShortRegSizes \cup WordRegSizes :
          given = [reg |-> NewShiftRegister(size), size |-> size,
                   pushes |-> <<>>, width |-> 0, m |-> 0, i |-> 0,
                   done |-> <<>>]
    /\ ret = <<>>
    /\ last = NoCall

\* res = reg.push(bit)
RegPushCall(bit, rest) ==
    /\ given' = [rest EXCEPT !.reg = RegPush(given.reg, bit),
                             !.pushes = Append(given.pushes, bit)]
    /\ ret' = [op |-> "push", bit |-> bit, len |-> 0, idx |-> 0,
               res |-> RegPushed(given.reg, bit)]
    /\ UNCHANGED <<chainVars, emuVars, serVars, ledVars, last>>

\* reg.push(bit) on a short register
RegPushBit(bit) ==
    /\ given.size \in ShortRegSizes
    /\ Len(given.pushes) < MaxPushes
    /\ RegPushCall(bit, given)

\* "std::uint32_t magic = 0xdeadbeef, m = magic;" for a word of width bits
RegStartWord(width, word) ==
    /\ given.size \in WordRegSizes
    /\ given.i = given.width
    /\ Len(given.pushes) + width <= MaxWordPushes
    /\ given' = [given EXCEPT !.width = width, !.m = word, !.i = 0,
                              !.done = Append(@, word)]
    /\ ret' = <<>>
    /\ UNCHANGED <<chainVars, emuVars, serVars, ledVars, last>>

\* "reg.push((m & 0x80000000) > 0); m = m << 1;" for a word of width bits
RegPushWordBit ==
    /\ given.i < given.width
    /\ RegPushCall(BitRead(given.m, given.width - 1),
                   [given EXCEPT !.m = (2 * @) % (2 ^ given.width),
                                 !.i = @ + 1])

\* reg.get<T>(idx) for a T of len bits
RegGetCall(len, idx) ==
    /\ ret' = [op |-> "get", bit |-> FALSE, len |-> len, idx |-> idx,
               res |-> RegGet(given.reg, len, idx)]
    /\ UNCHANGED <<chainVars, emuVars, serVars, ledVars, given, last>>

RegNext ==
    \/ \E bit \in BOOLEAN : RegPushBit(bit)
    \/ \E w \in RegWords : RegStartWord(w[1], w[2])
    \/ RegPushWordBit
    \/ \E len \in {8, 16}, idx \in 0..3 : RegGetCall(len, idx)

\* a shift register under push and get
SpecReg == RegInit /\ [][RegNext]_vars

\* ------------------------------------- a display read by the interpreter

\* std::vector<std::uint8_t> data; num is the number createNum was called
\* with, 0 when data was filled glyph by glyph
NumInit ==
    /\ ChainIdle
    /\ EmuIdle
    /\ SerIdle
    /\ LedIdle
    /\ SegIdle
    /\ given = [data |-> <<>>, num |-> 0]
    /\ ret = <<>>
    /\ last = NoCall

\* data.push_back(glyph)
NumPushBack(glyph) ==
    /\ given.num = 0
    /\ Len(given.data) < 4
    /\ given' = [given EXCEPT !.data = Append(@, glyph)]
    /\ ret' = <<>>
    /\ UNCHANGED <<chainVars, emuVars, serVars, ledVars, last>>

\* createNum(num, decimalDot), up to its call of create; it starts with a
\* data of its own
NumCreateNum(num, decimalDot) ==
    /\ given' = [data |-> CreateNum(num, decimalDot), num |-> num]
    /\ ret' = <<>>
    /\ UNCHANGED <<chainVars, emuVars, serVars, ledVars, last>>

\* create(data).getNumber()
NumGetNumber ==
    /\ \E state \in {Create(NewBitArray(32, TRUE), given.data, 0)} :
          ret' = [op |-> "getNumber", res |-> GetNumber(state, 4)]
    /\ UNCHANGED <<chainVars, emuVars, serVars, ledVars, given, last>>

NumNext ==
    \/ \E glyph \in NumGlyphs : NumPushBack(glyph)
    \/ /\ given.data = <<>>
       /\ \E num \in NumRange, dot \in NumDots : NumCreateNum(num, dot)
    \/ NumGetNumber

\* a display filled glyph by glyph or by createNum, and read as a number
SpecNum == NumInit /\ [][NumNext]_vars

\* ------------------------------- the display driven through the emulator

\* registerPin(pin, OUTPUT) and pinMode(pin, OUTPUT) for each pin of todo
RECURSIVE ShOutputs(_, _)
ShOutputs(e, todo) ==
    IF todo = {} THEN e
    ELSE LET p == Min(todo)
         IN With(EmuRegisterPin(e, p, OUTPUT).e, LAMBDA a :
            With(EmuPinMode(a, p, OUTPUT).e, LAMBDA b :
                ShOutputs(b, todo \ {p})))

\* the emulator has the data, clock and latch pins as outputs and the
\* display is attached to them; the register of the display holds bits
\* shifted earlier, the latch is LOW
ShInit ==
    /\ ChainIdle
    /\ SerIdle
    /\ LedIdle
    /\ FunIdle
    /\ EmuIs(ShOutputs(NewEmulator, {data_pin, clock_pin, latch_pin}))
    /\ nextId = 0
    /\ seenId = 0
    /\ calls = 0
    /\ \E content \in SegContents : \E reg \in {RegisterOf(content)} :
          display = [NewSegDisplay(4) EXCEPT !.mShiftRegister = reg,
                                             !.mDataInput = reg[1]]
    /\ events = 0
    /\ last = NoEmuCall

\* the call op(pin, arg) of the tested program ended as r says, and the
\* display has consumed what it wrote
ShDone(op, pin, arg, r) ==
    /\ \E v \in {r} : \E d \in {SegConsume(display, v.wrote)} :
          /\ mCurrentTime' = v.e.mCurrentTime
          /\ mPins' = v.e.mPins
          /\ mInputs' = v.e.mInputs
          /\ mInputBuffers' = v.e.mInputBuffers
          /\ mEnable' = v.e.mEnable
          /\ display' = d.s
          /\ events' = events + Len(v.wrote)
          /\ last' = [op |-> op, pin |-> pin, arg |-> arg, ret |-> v.ret,
                      err |-> IF v.err # OK THEN v.err ELSE d.err]
    /\ calls' = calls + 1
    /\ UNCHANGED <<chainVars, serVars, filter, feed, phases, ret, nextId,
                   seenId>>

\* shiftOut(data_pin, clock_pin, MSBFIRST, glyph)
ShGlyph(glyph) ==
    /\ calls = 0
    /\ given' = [glyph |-> glyph, mask |-> 0]
    /\ ShDone("shiftOut", data_pin, glyph,
              EmuShiftOut(Emu, data_pin, clock_pin, MSBFIRST, glyph))

\* shiftOut(data_pin, clock_pin, MSBFIRST, mask)
ShMask(mask) ==
    /\ calls = 1
    /\ given' = [given EXCEPT !.mask = mask]
    /\ ShDone("shiftOut", data_pin, mask,
              EmuShiftOut(Emu, data_pin, clock_pin, MSBFIRST, mask))

\* digitalWrite(latch_pin, HIGH)
ShLatch ==
    /\ calls = 2
    /\ UNCHANGED given
    /\ ShDone("digitalWrite", latch_pin, HIGH,
              EmuDigitalWrite(Emu, latch_pin, HIGH))

ShNext ==
    \/ \E glyph \in ShGlyphs : ShGlyph(glyph)
    \/ \E mask \in ShMasks : ShMask(mask)
    \/ ShLatch

\* a glyph shown on the display by the tested program: two bytes shifted
\* out, then the latch raised
SpecShift == ShInit /\ [][ShNext]_vars

\* ------------------------------------------------- filters in a chain

\* the chains of filters: a demultiplexer, an aggregator, and a
\* demultiplexer in front of an aggregator, each ending in a time series
PipeChains ==
    {NewDemultiplexer(2, 2, 1, NewTimeSeries),
     NewAggregator(2, NewTimeSeries),
     NewDemultiplexer(2, 2, 1, NewAggregator(2, NewTimeSeries))}

\* the filters have been constructed and attached to each other
PipeInit ==
    /\ ChainIdle
    /\ EmuIdle
    /\ SerIdle
    /\ SegIdle
    /\ FunIdle
    /\ filter \in PipeChains
    /\ feed = <<>>
    /\ phases = <<>>
    /\ last = NoLedCall

\* the call op(time, value) on the first filter of the chain ended as r says
Piped(op, time, value, r) ==
    /\ filter' = r.s
    /\ last' = [op |-> op, time |-> time, value |-> value, err |-> r.err]
    /\ UNCHANGED <<chainVars, emuVars, serVars, feed, display, funVars>>

\* first.addEvent(time, state)
PipeFeed(time, state) ==
    /\ events < MaxPipeFeed
    /\ Piped("addEvent", time, state, NextAddEvent(filter, time, state))
    /\ events' = events + 1
    /\ UNCHANGED phases

\* first.advanceTime(time)
PipeAdvance(time) ==
    /\ Piped("advanceTime", time, {}, NextAdvanceTime(filter, time))
    /\ UNCHANGED <<events, phases>>

\* first.clear(); phases keeps the logical time of the last clear
PipeClear ==
    /\ Piped("clear", 0, {}, NextClear(filter))
    /\ phases' = <<filter.mLastTime>>
    /\ UNCHANGED events

PipeNext ==
    \/ \E t \in 0..MaxPipeT, v \in LedStates : PipeFeed(t, v)
    \/ \E t \in 0..MaxPipeT : PipeAdvance(t)
    \/ PipeClear

\* a chain of filters in front of a time series, under every call
SpecPipe == PipeInit /\ [][PipeNext]_vars

\* --------------------------------------------- runLoopsForPeriod alone

\* the loopDelay of the runs: 0 leaves the advance of the clock to loop()
PeriodDelays == {0, 1, 2}

PeriodNext ==
    \/ \E p \in 0..MaxLongPeriod, d \in PeriodDelays : RunLoopsForPeriod(p, d)
    \/ \E ms \in Millis : BodyDelay(ms)
    \/ LoopReturns
    \/ \E ok \in BOOLEAN : CallbackReturns(ok)

\* the test calls runLoopsForPeriod only; loop() may call delay
SpecPeriod == RunInit /\ [][PeriodNext]_vars

\* loop() returns to runSingleLoop and the callback returns to
\* runLoopsForPeriod: both are plain calls made by the thread of the test
SpecPeriodFair ==
    /\ SpecPeriod
    /\ WF_vars(LoopReturns)
    /\ WF_vars(\E ok \in BOOLEAN : CallbackReturns(ok))

\* ----------------------------------------------------------------- claims

Range(s) == {s[i] : i \in 1..Len(s)}

\* the events of S in the order of their time and, at equal time, of the
\* number of the call that stored them
RECURSIVE SortByTimeId(_)
SortByTimeId(S) ==
    IF S = {} THEN <<>>
    ELSE LET m == CHOOSE e \in S : \A o \in S :
                      e.time < o.time \/ (e.time = o.time /\ e.id <= o.id)
         IN <<m>> \o SortByTimeId(S \ {m})

Unstamped(s) == [i \in 1..Len(s) |-> [time |-> s[i].time, value |-> s[i].value]]

IsDirectCall == last'.op \in {"addEvent", "advanceTime"}

\* C1: on a consumer, addEvent(t,v) or advanceTime(t) with t < lastTime
\* fails, hands nothing to the next consumer and changes nothing; with
\* t >= lastTime it succeeds and lastTime becomes t; clear() keeps lastTime
\* (so an older event is still rejected after it); lastTime of the consumer
\* and of its next consumer never decreases.
C1_Causality ==
    [][ /\ (IsDirectCall /\ last'.time < fts.mLastTime)
            => (last'.err = Causality /\ last'.out = <<>>
                /\ fts' = fts /\ series' = series)
        /\ (IsDirectCall /\ last'.time >= fts.mLastTime)
            => (last'.err = OK /\ fts'.mLastTime = last'.time)
        /\ (last'.op = "clear")
            => (fts'.mLastTime = fts.mLastTime
                /\ series'.mLastTime = series.mLastTime)
        /\ fts'.mLastTime >= fts.mLastTime
        /\ series'.mLastTime >= series.mLastTime ]_vars

\* right after a clear() that emptied the series, an event older than the
\* last time seen before the clear has been rejected
C1_Witness ==
    /\ last.op = "addEvent" /\ last.prev = "clear" /\ last.err = Causality
    /\ last.time < fts.mLastTime
    /\ fts.mEvents = <<>> /\ series.mEvents = <<>>

\* C8: when advanceTime(T) has returned on a future time series fed by
\* addFutureEvent, its next consumer holds exactly the scheduled events with
\* time <= T, by time and, at equal time, in the order they were added.
C8_Released ==
    (last.op = "advanceTime" /\ last.err = OK)
        => series.mEvents =
             Unstamped(SortByTimeId({e \in Range(fts.mEvents) : e.time <= last.time}))

\* two events of one time and different values were added after a later
\* one, both have been delivered and the later one is still held back
C8_Witness ==
    /\ last.op = "advanceTime" /\ last.err = OK
    /\ \E a, b, c \in Range(fts.mEvents) :
          /\ a.time = b.time /\ a.value # b.value /\ a.time <= last.time
          /\ c.time > last.time /\ c.id < a.id /\ c.id < b.id
    /\ Len(series.mEvents) = 2

\* ------------------------------------------ claims about the emulator

\* the events the TimeSeries attached to pin p of e has received
Log(e, p) == e.mPins[p].next.mEvents

\* the stored events of s that belong to pin p
RECURSIVE OfPin(_, _)
OfPin(s, p) ==
    IF s = <<>> THEN <<>>
    ELSE IF s[1].value.pin = p THEN <<s[1]>> \o OfPin(Tail(s), p)
    ELSE OfPin(Tail(s), p)

\* every event enqueuePinValueChange has stored for pin p
Scheduled(p) ==
    IF p \in DOMAIN mInputBuffers THEN Range(mInputBuffers[p].mEvents) ELSE {}

\* the pin value of the last event of s, HIGH if there is none
LastValue(s) == IF s = <<>> THEN HIGH ELSE s[Len(s)].value.value

IsIncreasing(s, strict) ==
    \A i \in 1..(Len(s) - 1) :
        IF strict THEN s[i].time < s[i + 1].time ELSE s[i].time <= s[i + 1].time

C3_ModeFixed ==
    \A p \in PinIds, m \in {INPUT, OUTPUT} :
        mPins[p].mMode \in {INPUT, OUTPUT} =>
            \E r \in {EmuPinMode(Emu, p, m)} :
                IF m = mPins[p].mMode THEN r.err = OK
                ELSE r.err # OK /\ r.e.mPins[p].mMode = mPins[p].mMode

\* C4: a pin registered with input wiring is never in output mode: no
\* pinMode(p, OUTPUT) on it and no digitalWrite on it has succeeded
C4_InputNeverOutput ==
    \A p \in PinIds :
        mPins[p].mWiring = INPUT =>
            /\ mPins[p].mMode # OUTPUT
            /\ ~(last.op = "pinMode" /\ last.pin = p /\ last.arg = OUTPUT
                   /\ last.err = OK)
            /\ ~(last.op = "digitalWrite" /\ last.pin = p /\ last.err = OK)

\* C5: in every reachable state digitalRead fails on a pin whose mode is
\* not input and digitalWrite fails on a pin whose mode is not output; a
\* digitalRead or digitalWrite that fails leaves the emulator as it was
\* (pin values, clock, logs, stored input) and hands on no event
C5_FailedAccess ==
    \A p \in PinIds :
        /\ \E r \in {EmuDigitalRead(Emu, p)} :
              /\ mPins[p].mMode # INPUT => r.err # OK
              /\ r.err # OK =>
                    r.e = Emu /\ r.wrote = <<>> /\ r.released = <<>>
        /\ \A v \in Values : \E r \in {EmuDigitalWrite(Emu, p, v)} :
              /\ mPins[p].mMode # OUTPUT => r.err # OK
              /\ r.err # OK =>
                    r.e = Emu /\ r.wrote = <<>> /\ r.released = <<>>

\* a write has failed on a pin in input mode that an input event has set
\* to LOW, while an input event of the pin is still to be released
C5_Witness ==
    /\ last.op = "digitalWrite" /\ last.err = Violation /\ last.arg = HIGH
    /\ mPins[last.pin].mMode = INPUT
    /\ mPins[last.pin].value = LOW
    /\ \E ev \in Scheduled(last.pin) : ev.time > mCurrentTime
    /\ \E q \in PinIds : mPins[q].mMode = OUTPUT

\* C7 as stated, for the pins with input wiring: digitalRead at time T
\* returns the value of the most recent event scheduled for the pin with
\* time <= T, HIGH if there is none
C7_ReadsScheduled ==
    \A p \in PinIds :
        \E r \in {EmuDigitalRead(Emu, p)} :
            (r.err = OK /\ mPins[p].mWiring = INPUT) =>
                r.ret = LastValue(SortByTimeId(
                            {ev \in Scheduled(p) : ev.time <= mCurrentTime}))

\* C7 amended: digitalRead at time T returns the value of the most recent
\* event among those the emulator has released to the pin: the events of a
\* pin with input wiring that were scheduled, with a time <= T, before the
\* clock advance that ended the last successful call; HIGH if there is none
C7_ReadsReleased ==
    \A p \in PinIds :
        \E r \in {EmuDigitalRead(Emu, p)} :
            r.err = OK =>
                r.ret = LastValue(SortByTimeId(
                            {ev \in Scheduled(p) :
                                /\ mPins[p].mWiring = INPUT
                                /\ ev.time <= mCurrentTime
                                /\ ev.id < seenId}))

\* a read has returned the LOW of a released event although a HIGH was
\* scheduled for a later time, which the clock advance of the read released
C7_Witness ==
    /\ last.op = "digitalRead" /\ last.err = OK /\ last.ret = LOW
    /\ mPins[last.pin].value = HIGH
    /\ \E a, b \in Scheduled(last.pin) :
          /\ a.value.value = LOW /\ a.time <= mCurrentTime - mPinReadDelay
          /\ b.value.value = HIGH /\ b.time > mCurrentTime - mPinReadDelay

\* C9: whenever the clock advances, the stored input events released are
\* released in the order of their times across the pins and, at equal
\* times, in the order in which they were scheduled
C9_ChronologicalRelease ==
    \A us \in Delays :
        \E r \in {EmuDelayMicroseconds(Emu, us)} :
            r.err = OK => r.released = SortByTimeId(Range(r.released))

\* C10 as stated: the events a pin has delivered have strictly increasing
\* times
C10_StrictlyIncreasing ==
    \A p \in PinIds : IsIncreasing(Log(Emu, p), TRUE)

\* C10 amended: the events a pin has delivered have non-decreasing times,
\* and strictly increasing ones on a pin without registered input, which
\* delivers the events of digitalWrite only
C10_NonDecreasing ==
    \A p \in PinIds :
        /\ IsIncreasing(Log(Emu, p), FALSE)
        /\ p \notin mInputs => IsIncreasing(Log(Emu, p), TRUE)

\* a pin has delivered two input events of the same time, and a pin without
\* input has delivered two writes
C10_Witness ==
    /\ \E p \in mInputs : \E i \in 1..(Len(Log(Emu, p)) - 1) :
          Log(Emu, p)[i].time = Log(Emu, p)[i + 1].time
    /\ \E q \in PinIds \ mInputs : Len(Log(Emu, q)) = 2

\* -------------------------------------- claims about the enable flags

Disabled_Set == {n \in MethodNames : ~mEnable[n]}

\* C6: a call of an API function whose flag is disabled fails with an
\* emulator violation raised by its own gate and leaves the clock and the
\* pins as they were; a call of a function whose flag is enabled (again) is
\* not refused by its own gate; disableMethod(name) and enableMethod(name)
\* change the flag of name and no other flag
C6_Gate ==
    [][ /\ (last'.op = "call" /\ calls' = calls + 1) =>
              /\ ~mEnable[last'.name] =>
                    /\ last'.err = Violation /\ last'.gate = last'.name
                    /\ mCurrentTime' = mCurrentTime /\ mPins' = mPins
              /\ mEnable[last'.name] => last'.gate # last'.name
        /\ (last'.op \in {"disableMethod", "enableMethod"} /\ calls' = calls) =>
              IF last'.err = OK
              THEN mEnable' = [mEnable EXCEPT ![last'.name] =
                                  (last'.op = "enableMethod")]
              ELSE mEnable' = mEnable ]_vars

\* with two methods disabled, a call that had succeeded before is refused
\* by its gate
C6_Witness ==
    /\ last.op = "call" /\ last.err = Violation /\ last.gate = last.name
    /\ Disabled_Set = {last.name, "digitalWrite"}
    /\ last.name = "shiftOut"
    /\ calls = 2
    /\ mCurrentTime > Fixture.mCurrentTime

\* ----------------------- claims about serial input and about the drivers

\* the chars of the strings of q, in the order of q
RECURSIVE Flatten(_)
Flatten(q) == IF q = <<>> THEN <<>> ELSE q[1].str \o Flatten(Tail(q))

\* the entries of q scheduled at a time <= t
Due(q, t) == SelectSeq(q, LAMBDA x : x.time <= t)

\* C11: whenever the clock has advanced to T, by the advance that follows
\* loop() or by a delay called inside loop(), no string scheduled at a time
\* <= T is still waiting, and the chars the program has read followed by
\* the receive buffer are the chars of the strings scheduled at a time <= T,
\* in the order of the schedule, each once
C11_SerialReleased ==
    [][ mCurrentTime' > mCurrentTime =>
           /\ Due(mSerialInput', mCurrentTime') = <<>>
           /\ taken' \o mSerialData' = Flatten(Due(accepted', mCurrentTime'))
      ]_vars

IsSortedByTime(q) == \A i \in 1..(Len(q) - 1) : q[i].time <= q[i + 1].time

\* C12: the scheduled serial strings are sorted by non-decreasing time;
\* in every reachable state enqueueSerialInputEvent(input, delay) fails and
\* leaves the schedule as it is when currentTime + delay is earlier than
\* the time of the last string of the schedule, and otherwise succeeds and
\* appends (currentTime + delay, input) to the schedule
C12_SerialSorted ==
    /\ IsSortedByTime(mSerialInput)
    /\ \A input \in SerialStrings, delay \in SerialDelays :
          \E r \in {CtlEnqueueSerialInputEvent(Emu, mSerialInput, mSerialData,
                                               input, delay)} :
             IF /\ mSerialInput # <<>>
                /\ mCurrentTime + delay < mSerialInput[Len(mSerialInput)].time
             THEN r.err = Violation /\ r.q = mSerialInput
             ELSE /\ r.err = OK
                  /\ r.q = Append(mSerialInput,
                                  [time |-> mCurrentTime + delay, str |-> input])

\* after the clock has advanced, a string was refused because a string
\* scheduled earlier for a later time is still waiting
C12_Witness ==
    /\ last.op = "enqueueSerialInputEvent" /\ last.err = Violation
    /\ mCurrentTime > 0
    /\ Len(mSerialInput) = 1 /\ Len(accepted) = 1
    /\ mSerialInput[1].time > mCurrentTime

Count(what) == Cardinality({i \in 1..Len(trace) : trace[i].what = what})

\* C13: what runMultipleLoops and runLoopsForPeriod have done so far is a
\* sequence of rounds (loop() invoked, clock advanced by loopDelay, callback
\* called with the current time); only the last callback has returned
\* false, and then the driver has returned; runMultipleLoops(n, ...) has
\* invoked loop() at most n times, and returned at once for n = 0;
\* runLoopsForPeriod(p, ...) has invoked loop() only at times < start + p
C13_Drivers ==
    run.driver \in {"multiple", "period"} =>
        /\ \A i \in 1..Len(trace) :
              /\ trace[i].what = <<"loop", "advance", "cb">>[((i - 1) % 3) + 1]
              /\ trace[i].what = "advance" =>
                    trace[i].time = trace[i].from + run.loopDelay
              /\ trace[i].what = "cb" => trace[i].time = trace[i - 1].time
              /\ (trace[i].what = "cb" /\ i < Len(trace)) => trace[i].ok
              /\ (trace[i].what = "loop" /\ run.driver = "period") =>
                    trace[i].time < run.start + run.arg
        /\ run.pc = "callback" =>
              /\ trace[Len(trace)].what = "cb"
              /\ trace[Len(trace)].time = mCurrentTime
        /\ run.pc = "body" => trace[Len(trace)].what \in {"loop"}
        /\ run.pc = "idle" =>
              \/ trace = <<>>
              \/ trace[Len(trace)].what = "cb"
        /\ (trace # <<>> /\ ~trace[Len(trace)].ok) => run.pc = "idle"
        /\ run.driver = "multiple" =>
              /\ Count("loop") <= run.arg
              /\ run.count = run.arg - Count("advance")
              /\ run.arg = 0 => (trace = <<>> /\ run.pc = "idle")

\* runLoopsForPeriod(2, 1, cb) has returned after two rounds because the
\* end time was reached
C13_Witness ==
    /\ run.driver = "period" /\ run.pc = "idle" /\ run.arg = 2
    /\ run.loopDelay = 1
    /\ Len(trace) = 6
    /\ trace[6].ok
    /\ mCurrentTime = run.start + 2

\* ------------------------------------ claims about the cost of the calls

\* the cost of the call of name as C14 states it, given the number of
\* digital writes and reads the call performed
StatedCost(name, writes, reads) ==
    CASE name = "pinMode" -> 100
      [] name \in {"digitalWrite", "digitalRead", "analogRead"} -> 20
      [] name = "delay" -> 1000 * 1
      [] name = "delayMicroseconds" -> 1
      [] name \in {"shiftOut", "shiftIn"} -> 20 * writes + 20 * reads
      [] OTHER -> 0

\* in the state in which the call is made, delay(ms) advances the clock by
\* 1000 * ms and delayMicroseconds(us) by us, and by 0 when they fail
DelayCost ==
    /\ \A ms \in 0..2 : \E r \in {EmuDelay(Emu, ms)} :
          r.e.mCurrentTime - mCurrentTime = IF r.err = OK THEN 1000 * ms ELSE 0
    /\ \A us \in Delays : \E r \in {EmuDelayMicroseconds(Emu, us)} :
          r.e.mCurrentTime - mCurrentTime = IF r.err = OK THEN us ELSE 0

\* C14 as stated: a successful API call advances the clock by its fixed
\* cost (for shiftOut and shiftIn the cost of the digital writes and reads
\* they perform) and a failed call advances it by 0
C14_FixedCost ==
    [][ (last'.op = "call" /\ calls' = calls + 1) =>
           /\ last'.name \in {"delay", "delayMicroseconds"} => DelayCost
           /\ mCurrentTime' - mCurrentTime =
                 IF last'.err = OK
                 THEN StatedCost(last'.name, last'.writes, last'.reads)
                 ELSE 0 ]_vars

\* C14 amended: a successful API call advances the clock by its fixed cost;
\* a failed call of any function but shiftOut and shiftIn advances it by 0;
\* shiftOut and shiftIn, failed or not, advance it by the cost of the
\* digital writes and reads that returned before the call ended
C14_CostOfCalls ==
    [][ (last'.op = "call" /\ calls' = calls + 1) =>
           /\ last'.name \in {"delay", "delayMicroseconds"} => DelayCost
           /\ mCurrentTime' - mCurrentTime =
                 IF last'.err = OK \/ last'.name \in {"shiftOut", "shiftIn"}
                 THEN StatedCost(last'.name, last'.writes, last'.reads)
                 ELSE 0 ]_vars

\* shiftIn has failed at its first digitalRead, which is disabled, after
\* its first digitalWrite has advanced the clock
C14_Witness ==
    /\ last.op = "call" /\ last.name = "shiftIn" /\ last.err = Violation
    /\ last.gate = "digitalRead"
    /\ last.writes = 1 /\ last.reads = 0
    /\ calls = 1
    /\ mCurrentTime = Fixture.mCurrentTime + mPinWriteDelay

\* ------------------------------------------ claims about the filters

\* the events the filter has emitted to its next consumer
Emitted == filter.next.mEvents

\* the raw input state during [u, u + 1): the state of the last event fed
\* with a time <= u, all LEDs off before the first
RawAt(u) ==
    LET past == SelectSeq(feed, LAMBDA ev : ev.time <= u)
    IN IF past = <<>> THEN {} ELSE past[Len(past)].value

\* the time within [from, to) during which the raw input had LED i on
RawOnTime(i, from, to) ==
    Cardinality({u \in from..(to - 1) : i \in RawAt(u)})

\* C15: every state the demultiplexer has emitted, for the window
\* [m - W, m) that closed at its timestamp m, has on every LED that the raw
\* input kept on for a total of at least the threshold within that window
C15_ThresholdOn ==
    \A k \in 1..Len(Emitted) : \A i \in DOMAIN filter.mActiveTimes :
        RawOnTime(i, Emitted[k].time - filter.mTimeWindow, Emitted[k].time)
              >= filter.mThreshold
           => i \in Emitted[k].value

\* the raw input switched between the two LEDs inside windows, and three
\* states were emitted, the second showing both LEDs
C15_Witness ==
    /\ Len(Emitted) = 3
    /\ Emitted[2].value = {0, 1}
    /\ Len(feed) = 3
    /\ \A k \in 1..3 : Cardinality(feed[k].value) = 1
    /\ filter.mThreshold < filter.mTimeWindow

\* the index of the last event fed that changed the raw state, 0 if none
LastChange ==
    LET changes == {k \in 1..Len(feed) :
                       feed[k].value # (IF k = 1 THEN {} ELSE feed[k - 1].value)}
    IN IF changes = {} THEN 0
       ELSE CHOOSE k \in changes : \A j \in changes : j <= k

\* the last state emitted with a timestamp <= t, all LEDs off if none
EmittedUpTo(t) ==
    LET past == SelectSeq(Emitted, LAMBDA ev : ev.time <= t)
    IN IF past = <<>> THEN {} ELSE past[Len(past)].value

\* if the last change of the raw state, to S at time t, was fed to the
\* demultiplexer while its last emitted state was not S, then once time has
\* reached t + windows * W it has emitted S after t with a timestamp
\* <= t + windows * W
SettledWithin(windows) ==
    LastChange # 0 =>
        LET t == feed[LastChange].time
            S == feed[LastChange].value
            limit == t + windows * filter.mTimeWindow
        IN (filter.mLastTime >= limit /\ EmittedUpTo(t) # S) =>
              \E k \in 1..Len(Emitted) :
                  /\ Emitted[k].value = S
                  /\ Emitted[k].time > t
                  /\ Emitted[k].time <= limit

C18_EmissionGap ==
    \A k \in 1..(Len(Emitted) - 1) :
        Emitted[k + 1].time - Emitted[k].time >= filter.mTimeWindow

\* the aggregator has emitted three events, each exactly one window after
\* the one before, from three events fed to it
C18_Witness ==
    /\ filter.kind = "aggr"
    /\ Len(Emitted) = 3
    /\ Len(feed) = 3
    /\ \A k \in 1..2 : Emitted[k + 1].time - Emitted[k].time = filter.mTimeWindow

\* C16: when DemultiplexingTest has advanced the time past its last event,
\* the output holds exactly two events: LEDs 1 and 2 at a time < 22, then
\* LEDs 0 and 3 at a time in (1000, 1022)
C16_TwoEvents ==
    (last.op = "advanceTime" /\ phases # <<>>) =>
        /\ last.err = OK
        /\ Len(Emitted) = 2
        /\ Emitted[1].value = {1, 2}
        /\ Emitted[1].time < 22
        /\ Emitted[2].value = {0, 3}
        /\ Emitted[2].time > 1000
        /\ Emitted[2].time < 1022

\* the test has run to its end as written: 2000 events, then
\* advanceTime(2001), the first window opened by the event at 1
C16_Witness ==
    /\ last.op = "advanceTime"
    /\ last.time = 2001
    /\ adds = 2000
    /\ filter.mLastTime = 2001
    /\ Len(Emitted) > 0
    /\ Emitted[1].time = 21

\* ------------------------------------------ claims about the display

\* the byte i of the state of the display
StateByte(i) == BitArrayGet(SegGetState(display), 8, i * 8, 8)

\* C19: right after the display has consumed an event of the latch pin that
\* is a rising edge (the latch was LOW, the event is HIGH), each byte i of
\* getState(), i in 0..3, is the glyph byte of the shift register (bits
\* 8..15) if bit i of its digit-select byte (bits 0..7) is set, and 0xFF
\* otherwise
C19_LatchDecode ==
    (/\ last.op = "addEvent"
     /\ last.err = OK
     /\ last.pin = latch_pin
     /\ ~last.latch
     /\ last.value = HIGH) =>
        \A i \in 0..3 :
            StateByte(i) =
                IF BitRead(BitArrayGet([k \in 0..15 |->
                                           display.mShiftRegister[k + 1]],
                                       8, 0, 8), i)
                THEN BitArrayGet([k \in 0..15 |->
                                     display.mShiftRegister[k + 1]], 8, 8, 8)
                ELSE 255

\* a rising edge of the latch has been consumed after the clock had pushed
\* a bit into the register, and it shows a glyph on some digits only, over
\* a state latched before
C19_Witness ==
    /\ last.op = "addEvent"
    /\ last.err = OK
    /\ last.pin = latch_pin
    /\ ~last.latch
    /\ last.value = HIGH
    /\ Len(display.sprout.mEvents) = 2
    /\ display.mShiftRegister \notin {RegisterOf(c) : c \in SegContents}
    /\ \E i \in 0..3 : StateByte(i) = 255
    /\ \E i \in 0..3 : StateByte(i) \notin {0, 255}

\* ------------------------------------------ claims about stored events

\* the time of the last event stored in a series, -1 if it stores none
LastStored(ts) ==
    IF ts.mEvents = <<>> THEN -1 ELSE ts.mEvents[Len(ts.mEvents)].time

\* the events stored by the future time series and by the time series
\* after it are sorted by non-decreasing time
StoredSorted ==
    /\ IsSortedByTime(fts.mEvents)
    /\ IsSortedByTime(series.mEvents)

\* addEvent on the time series, with a time earlier than its last stored
\* event, would fail and leave it as it is
PlainRejectsEarlier ==
    \A t \in 0..MaxT, v \in Values :
        t < LastStored(series) => TsAddEvent(series, t, v) = Res(series, Causality)

\* C20 as stated: the stored events are sorted by non-decreasing time, and
\* addEvent with a time earlier than the last stored event fails and
\* leaves the stored sequence unchanged, on a time series and on a future
\* time series
C20_EarlierFails ==
    [][ /\ StoredSorted'
        /\ PlainRejectsEarlier'
        /\ (last'.op = "addEvent" /\ last'.time < LastStored(fts))
              => (last'.err # OK /\ fts'.mEvents = fts.mEvents) ]_vars

\* C20 amended: the stored events are sorted by non-decreasing time; on a
\* time series addEvent with a time earlier than the last stored event
\* fails and leaves the stored sequence unchanged; on a future time series
\* addEvent fails that way when the time is earlier than lastTime, and with
\* a time from lastTime on, earlier than the last stored event, it succeeds
\* and stores the event before the later ones
C20_SortedStore ==
    [][ /\ StoredSorted'
        /\ PlainRejectsEarlier'
        /\ (last'.op = "addEvent" /\ last'.time < fts.mLastTime)
              => (last'.err # OK /\ fts'.mEvents = fts.mEvents)
        /\ (/\ last'.op = "addEvent"
            /\ last'.time >= fts.mLastTime
            /\ last'.time < LastStored(fts))
              => /\ last'.err = OK
                 /\ Len(fts'.mEvents) = Len(fts.mEvents) + 1
                 /\ LastStored(fts') = LastStored(fts)
                 /\ \E k \in 1..Len(fts.mEvents) :
                       /\ fts'.mEvents[k].time = last'.time
                       /\ fts'.mEvents[k].value = last'.value
                       /\ fts'.mEvents[k + 1].time > last'.time ]_vars

\* addEvent has stored an event between two events of a future time
\* series, and the time series after it has received events too
C20_Witness ==
    /\ last.op = "addEvent"
    /\ last.err = OK
    /\ Len(fts.mEvents) = 3
    /\ fts.mEvents[1].time < last.time
    /\ fts.mEvents[2].time = last.time
    /\ fts.mEvents[3].time > last.time
    /\ series.mEvents # <<>>
    /\ LastStored(series) = last.time

\* ------------------------------------------ claims about the queries

\* C21: compare is symmetric: ts1.compare(ts2, range, v) equals
\* ts2.compare(ts1, range, v) for all series, ranges and initial values
C21_CompareSymmetric ==
    ret # <<>> => ret.res = ret.res2

\* both series have an event at one instant inside the range, with
\* different values, one has an event on the start of the range and one has
\* an event after its end, and the series differ for some time
C21_Witness ==
    /\ ret # <<>>
    /\ ret.res > 0
    /\ \E i \in 1..Len(given.ts1.mEvents), j \in 1..Len(given.ts2.mEvents) :
          /\ given.ts1.mEvents[i].time = given.ts2.mEvents[j].time
          /\ given.ts1.mEvents[i].value # given.ts2.mEvents[j].value
          /\ given.ts1.mEvents[i].time > ret.range.mStart
          /\ given.ts1.mEvents[i].time < ret.range.mEnd
    /\ \E i \in 1..Len(given.ts1.mEvents) :
          given.ts1.mEvents[i].time = ret.range.mStart
    /\ \E j \in 1..Len(given.ts2.mEvents) :
          given.ts2.mEvents[j].time > ret.range.mEnd

\* the current value of a series at time t: the value of its most recent
\* event with time <= t, or initial if it has none
CurrentValue(ts, t, initial) ==
    LET past == SelectSeq(ts.mEvents, LAMBDA ev : ev.time <= t)
    IN IF past = <<>> THEN initial ELSE past[Len(past)].value

\* the number of time units of the range at which two series differ
Divergence(ts, other, range, initial) ==
    Cardinality({t \in range.mStart..(range.mEnd - 1) :
                    CurrentValue(ts, t, initial) # CurrentValue(other, t, initial)})

\* C22: compare returns the number of time units t of [range.start,
\* range.end) at which the current values of the two series differ; the
\* series of the test give 200, and identical series give 0
C22_CompareCounts ==
    ret # <<>> =>
        /\ ret.res = Divergence(given.ts1, given.ts2, ret.range, ret.initial)
        /\ (/\ Len(given.ts1.mEvents) > MaxCmpEvents
            /\ ret.range = NewRange(0, CmpTestTimes[3])
            /\ ret.initial = 0) => ret.res = 200
        /\ given.ts1.mEvents = given.ts2.mEvents => ret.res = 0

\* the series of the test have been compared over [0, 1000) from 0
C22_Witness ==
    /\ ret # <<>>
    /\ Len(given.ts1.mEvents) = 4
    /\ given.ts1.mEvents[4].time = 800
    /\ given.ts2.mEvents[4].time = 850
    /\ ret.range = NewRange(0, 1000)
    /\ ret.initial = 0
    /\ ret.res = 200

\* needle occurs in hay, in order, as a subsequence
RECURSIVE IsSubsequence(_, _)
IsSubsequence(needle, hay) ==
    IF needle = <<>> THEN TRUE
    ELSE IF hay = <<>> THEN FALSE
    ELSE IF Head(needle) = Head(hay) THEN IsSubsequence(Tail(needle), Tail(hay))
    ELSE IsSubsequence(needle, Tail(hay))

\* the 0-based indices of the values of needle in hay from the index from
\* on, each the earliest one after the match before it, for the longest
\* prefix of needle that can be matched this way
RECURSIVE EarliestMatches(_, _, _)
EarliestMatches(needle, hay, from) ==
    IF needle = <<>> THEN <<>>
    ELSE LET at == {j \in from..(Len(hay) - 1) : hay[j + 1] = Head(needle)}
         IN IF at = {} THEN <<>>
            ELSE LET j == CHOOSE j \in at : \A k \in at : j <= k
                 IN <<j>> \o EarliestMatches(Tail(needle), hay, j + 1)

\* C23: findSelectedSubsequence on a non-empty series returns true iff the
\* needle values occur in the series in order as a subsequence; the mapping
\* is strictly increasing, and holds for the longest prefix of the needle
\* that can be matched the earliest index after the previous match
C23_SelectedSubsequence ==
    (/\ ret # <<>>
     /\ ret.op = "findSelectedSubsequence"
     /\ ret.err = OK
     /\ given.ts1.mEvents # <<>>) =>
        /\ ret.res = IsSubsequence(ValuesOf(given.ts2), ValuesOf(given.ts1))
        /\ \A k \in 1..(Len(ret.mapping) - 1) :
              ret.mapping[k] < ret.mapping[k + 1]
        /\ ret.mapping =
              EarliestMatches(ValuesOf(given.ts2), ValuesOf(given.ts1), 0)

\* the first full occurrence of needle in hay or, if there is none, the
\* earliest occurrence of its longest prefix that occurs, as a range
BestOccurrence(needle, hay) ==
    LET occurs(start, len) ==
            /\ start + len <= Len(hay)
            /\ \A k \in 1..len : hay[start + k] = needle[k]
        lens == {len \in 0..Len(needle) :
                    \E start \in 0..Len(hay) : occurs(start, len)}
        best == CHOOSE len \in lens : \A l \in lens : l <= len
        start == CHOOSE s \in 0..Len(hay) :
                    /\ occurs(s, best)
                    /\ \A t \in 0..(s - 1) : ~occurs(t, best)
    IN IF best = 0 THEN NewRange(0, 0) ELSE NewRange(start, start + best)

\* C24: findSubsequence with a non-empty needle returns the range of the
\* first full occurrence of the needle or else the earliest range of its
\* longest prefix that occurs; the range lies within [0, size] and only
\* stored events are compared
C24_Subsequence ==
    (/\ ret # <<>>
     /\ ret.op = "findSubsequence"
     /\ given.ts2.mEvents # <<>>) =>
        /\ ret.err = OK
        /\ ~ret.past
        /\ ret.range.mEnd <= Len(given.ts1.mEvents)
        /\ ret.range = BestOccurrence(ValuesOf(given.ts2), ValuesOf(given.ts1))

\* ------------------------------------- claims about the forked consumer

\* the last call was op, made on the forked consumer
ForkCalled(op) ==
    ret # <<>> /\ ret.op = op /\ (op = "addEvent" => ret.name = Null)

\* C25: attachNextConsumer and attachSproutConsumer fail if the link is
\* already set and set it otherwise; detachNextConsumer and
\* detachSproutConsumer fail if the link is empty and clear it otherwise; a
\* failed attach or detach leaves both links as they were
C25_AttachDetach ==
    /\ ForkCalled("attachNextConsumer") =>
          IF ret.was.fork.mNextConsumer # Null
          THEN ret.err # OK /\ given.fork = ret.was.fork
          ELSE /\ ret.err = OK
               /\ given.fork = [ret.was.fork EXCEPT !.mNextConsumer = ret.name]
    /\ ForkCalled("attachSproutConsumer") =>
          IF ret.was.fork.mSproutConsumer # Null
          THEN ret.err # OK /\ given.fork = ret.was.fork
          ELSE /\ ret.err = OK
               /\ given.fork =
                     [ret.was.fork EXCEPT !.mSproutConsumer = ret.name]
    /\ ForkCalled("detachNextConsumer") =>
          IF ret.was.fork.mNextConsumer = Null
          THEN ret.err # OK /\ given.fork = ret.was.fork
          ELSE /\ ret.err = OK
               /\ given.fork = [ret.was.fork EXCEPT !.mNextConsumer = Null]
    /\ ForkCalled("detachSproutConsumer") =>
          IF ret.was.fork.mSproutConsumer = Null
          THEN ret.err # OK /\ given.fork = ret.was.fork
          ELSE /\ ret.err = OK
               /\ given.fork = [ret.was.fork EXCEPT !.mSproutConsumer = Null]

\* attaching a second next consumer has failed and left the first attached,
\* the sprout being attached too
C25_Witness ==
    /\ ForkCalled("attachNextConsumer")
    /\ ret.err # OK
    /\ given.fork.mNextConsumer \in NextNames \ {ret.name}
    /\ given.fork.mSproutConsumer # Null

\* the series attached as next and as sprout consumer, if any
AttachedNext == given.fork.mNextConsumer
AttachedSprout == given.fork.mSproutConsumer

\* C26: addEvent on the forked consumer delivers the event to the next
\* consumer and leaves every other series, the sprout consumer too, as it
\* was; an advanceTime that returns has brought both the next and the sprout
\* consumer to the time; clear has cleared both
C26_ForkPropagation ==
    /\ ForkCalled("addEvent") =>
          /\ \A n \in DOMAIN given.objs :
                n # AttachedNext => given.objs[n] = ret.was.objs[n]
          /\ (ret.err = OK /\ AttachedNext # Null) =>
                /\ given.objs[AttachedNext].mEvents =
                      Append(ret.was.objs[AttachedNext].mEvents,
                             [time |-> ret.time, value |-> ret.value])
                /\ given.objs[AttachedNext].mLastTime = ret.time
    /\ (ForkCalled("advanceTime") /\ ret.err = OK) =>
          \A n \in {AttachedNext, AttachedSprout} \ {Null} :
              /\ given.objs[n].mLastTime = ret.time
              /\ given.objs[n].mEvents = ret.was.objs[n].mEvents
    /\ ForkCalled("clear") =>
          /\ ret.err = OK
          /\ \A n \in {AttachedNext, AttachedSprout} \ {Null} :
                given.objs[n].mEvents = <<>>

\* an event was added through the forked consumer at a time later than the
\* time of the attached sprout consumer, which holds an event
C26_Witness ==
    /\ ForkCalled("addEvent")
    /\ ret.err = OK
    /\ AttachedNext # Null
    /\ AttachedSprout # Null
    /\ given.objs[AttachedSprout].mEvents # <<>>
    /\ given.objs[AttachedSprout].mLastTime < ret.time

\* ------------------------------------------- claims about the bit helpers

\* the number of bits that set and get with the arguments of the last call
\* work on: min(count, width of T, N - offset), none from N on
BaTouched ==
    IF ret.offset >= BitArraySize(ret.was) THEN 0
    ELSE Min({ret.count, ret.width, BitArraySize(ret.was) - ret.offset})

\* C27: set<T>(get<T>(offset, count), offset, count) leaves the bit array as
\* it was; after set<T>(v, offset, count), get<T>(offset, count) returns the
\* min(count, width of T, N - offset) low bits of v and every other bit of
\* the array is as before; a 30-bit array set to 0xdeadbeef & 0x3fffffff
\* reads back that value and the bytes 0xef, 0xbe, 0xad, 0x1e
C27_SetGet ==
    ret # <<>> =>
        /\ ret.op = "set(get)" => given.ba = ret.was
        /\ ret.op = "set" =>
              /\ BitArrayGet(given.ba, ret.width, ret.offset, ret.count)
                    = ret.input % (2 ^ BaTouched)
              /\ \A i \in DOMAIN given.ba :
                    (i < ret.offset \/ i >= ret.offset + BaTouched)
                        => given.ba[i] = ret.was[i]
        /\ (/\ ret.op = "get"
            /\ BitArraySize(given.ba) = 30
            /\ given.ba # NewBitArray(30, FALSE)) =>
              /\ (ret.width = 32 /\ ret.offset = 0 /\ ret.count = 32)
                    => ret.res = BaMagic
              /\ (ret.width = 8 /\ ret.count = 8) =>
                    /\ ret.offset = 0 => ret.res = 239
                    /\ ret.offset = 8 => ret.res = 190
                    /\ ret.offset = 16 => ret.res = 173
                    /\ ret.offset = 24 => ret.res = 30

\* the 30-bit array set to the magic value was read at offset 24
C27_Witness ==
    /\ ret # <<>>
    /\ ret.op = "get"
    /\ BitArraySize(given.ba) = 30
    /\ ret.width = 8
    /\ ret.count = 8
    /\ ret.offset = 24
    /\ ret.res = 30

\* the last word pushed has been pushed whole
WordPushed == given.width > 0 /\ given.i = given.width

\* C28: push never changes the size of a shift register; push returns the
\* bit pushed size pushes earlier, 0 if there were fewer; after the bits of a
\* word were pushed most significant first into a register at least as wide,
\* get of that type at index 0 returns the word and get<uint8_t>(k) its k-th
\* least significant byte; after 0xdead and 0xbeef the 32-bit register
\* reads 0xef, 0xbe, 0xad, 0xde
C28_ShiftRegister ==
    /\ Len(given.reg) = given.size
    /\ (ret # <<>> /\ ret.op = "push") =>
          ret.res = IF Len(given.pushes) > given.size
                    THEN given.pushes[Len(given.pushes) - given.size]
                    ELSE FALSE
    /\ (/\ ret # <<>>
        /\ ret.op = "get"
        /\ WordPushed
        /\ given.size >= given.width) =>
          /\ (ret.len = given.width /\ ret.idx = 0) =>
                ret.res = given.done[Len(given.done)]
          /\ (ret.len = 8 /\ 8 * ret.idx + 8 <= given.width) =>
                ret.res = (given.done[Len(given.done)] \div (256 ^ ret.idx))
                              % 256
          /\ (given.size = 32 /\ given.done = <<57005, 48879>>) =>
                /\ ret.len = 8 => ret.res = <<239, 190, 173, 222>>[ret.idx + 1]
                /\ (ret.len = 16 /\ ret.idx < 2) =>
                      ret.res = <<48879, 57005>>[ret.idx + 1]

\* the 32-bit register holds the 32 bits of 0xdeadbeef and its highest byte
\* was read
C28_Witness ==
    /\ ret # <<>>
    /\ ret.op = "get"
    /\ WordPushed
    /\ given.size = 32
    /\ given.done = <<57005, 48879>>
    /\ ret.len = 8
    /\ ret.idx = 3
    /\ ret.res = 222

\* ------------------------------- claims about the 7-segment interpreter

\* the glyph at position i (1 the leftmost) of the display made of the
\* data, without its decimal dot; positions without data are blank
Shown(i) ==
    LET glyph == IF i <= Len(given.data) THEN given.data[i]
                 ELSE LED_7SEG_EMPTY_SPACE
    IN IF glyph < 128 THEN glyph + 128 ELSE glyph

\* the digit a glyph shows, as a set of at most one element
DigitOf(glyph) == {d \in 0..9 : LED_7SEG_DIGITS_MAP[d + 1] = glyph}

\* the display shows blanks blanks, then a dash if dash = 1, then digits in
\* every remaining position, at least one
ShowsNumber(blanks, dash) ==
    /\ blanks + dash < 4
    /\ \A i \in 1..blanks : Shown(i) = LED_7SEG_EMPTY_SPACE
    /\ dash = 1 => Shown(blanks + 1) = LED_7SEG_DASH
    /\ \A i \in (blanks + dash + 1)..4 : DigitOf(Shown(i)) # {}

\* the decimal value of the digits shown from position from on
RECURSIVE ShownValue(_)
ShownValue(from) ==
    IF from > 4 THEN 0
    ELSE (CHOOSE d \in DigitOf(Shown(from)) : TRUE)
             * (10 ^ (4 - from)) + ShownValue(from + 1)

\* C29: getNumber returns the signed decimal value of a display that shows
\* blanks, an optional dash and then digits in every remaining position (at
\* least one, decimal dots ignored), and INVALID_NUMBER for every other
\* display; the display createNum makes of n in 1..9999 or -999..-1 reads n
C29_GetNumber ==
    ret # <<>> =>
        /\ \A blanks \in 0..3, dash \in {0, 1} :
              ShowsNumber(blanks, dash) =>
                 ret.res = IF dash = 1 THEN 0 - ShownValue(blanks + 2)
                           ELSE ShownValue(blanks + 1)
        /\ (\A blanks \in 0..3, dash \in {0, 1} : ~ShowsNumber(blanks, dash))
              => ret.res = INVALID_NUMBER
        /\ given.num # 0 => ret.res = given.num

\* the display createNum(-123, 2) makes, with its decimal dot, was read
C29_Witness ==
    /\ ret # <<>>
    /\ given.num = 0 - 123
    /\ given.data[3] < 128
    /\ ret.res = 0 - 123

\* ----------------------------- claims about the close of a demuxer window

\* the state the demultiplexer emitted last, all LEDs off before the first
LastEmitted ==
    IF Emitted = <<>> THEN {} ELSE Emitted[Len(Emitted)].value

\* the LEDs the raw input kept on for at least the threshold within the
\* window that ends at the marker
OnInWindow ==
    {i \in DOMAIN filter.mActiveTimes :
        RawOnTime(i, filter.mNextMarker - filter.mTimeWindow,
                  filter.mNextMarker) >= filter.mThreshold}

\* advanceTime(m) has closed the window that was open up to the marker m
ClosesWindow ==
    /\ IsWindowOpen(filter)
    /\ last'.op = "advanceTime"
    /\ last'.time = filter.mNextMarker
    /\ last'.err = OK

\* C30: when the open window [m - W, m) is closed at its marker m, the
\* accumulators are reset; the state with exactly the LEDs on that the raw
\* input kept on for at least the threshold within the window is emitted
\* with the timestamp m iff it differs from the state emitted last; the
\* marker advances by W when an event is emitted or when the last raw state
\* differs from that state, and otherwise the window is closed
C30_WindowClose ==
    [][ClosesWindow =>
          /\ \A i \in DOMAIN filter'.mActiveTimes : filter'.mActiveTimes[i] = 0
          /\ filter'.next.mEvents =
                IF OnInWindow # LastEmitted
                THEN Append(Emitted, [time |-> filter.mNextMarker,
                                      value |-> OnInWindow])
                ELSE Emitted
          /\ IF OnInWindow # LastEmitted \/ filter.mLastState # OnInWindow
             THEN filter'.mNextMarker =
                     filter.mNextMarker + filter.mTimeWindow
             ELSE /\ filter'.mNextMarker = filter.mNextMarker
                  /\ ~IsWindowOpen(filter')]_vars

\* a window of 3 was closed at its marker: one LED, on for 2, was emitted
\* on; the other, on for 1, was not
C30_Witness ==
    /\ last.op = "advanceTime"
    /\ last.err = OK
    /\ filter.mThreshold = 2
    /\ Emitted # <<>>
    /\ Emitted[Len(Emitted)].time = last.time
    /\ filter.mNextMarker = last.time + filter.mTimeWindow
    /\ \E i, j \in DOMAIN filter.mActiveTimes :
          /\ RawOnTime(i, last.time - filter.mTimeWindow, last.time) = 1
          /\ i \notin LastEmitted
          /\ RawOnTime(j, last.time - filter.mTimeWindow, last.time) = 2
          /\ j \in LastEmitted

\* ------------------------------------ claims about the aggregator's output

\* the state of the last event fed with a time before m, all LEDs off if
\* there is none
RawBefore(m) ==
    LET past == SelectSeq(feed, LAMBDA ev : ev.time < m)
    IN IF past = <<>> THEN {} ELSE past[Len(past)].value

\* every event emitted carries a state that differs from the one emitted
\* before it and is the latest state fed before its timestamp
EmitsChanges ==
    \A k \in 1..Len(Emitted) :
        /\ Emitted[k].value # (IF k = 1 THEN {} ELSE Emitted[k - 1].value)
        /\ Emitted[k].value = RawBefore(Emitted[k].time)

\* the call made in this step closes the window of the aggregator
ClosesAggrWindow ==
    /\ IsWindowOpen(filter)
    /\ last'.time >= filter.mNextMarker
    /\ last'.err = OK

\* at a close with the latest state equal to the state emitted last nothing
\* is emitted and the next consumer is advanced to the marker (and on to
\* the time of an advanceTime); otherwise the latest state is emitted with
\* the marker as its timestamp
ClosesQuietly ==
    ClosesAggrWindow =>
        IF filter.mLastState = LastEmitted
        THEN /\ filter'.next.mEvents = Emitted
             /\ filter'.next.mLastTime =
                   IF last'.op = "advanceTime" THEN last'.time
                   ELSE filter.mNextMarker
        ELSE filter'.next.mEvents =
                Append(Emitted, [time |-> filter.mNextMarker,
                                 value |-> filter.mLastState])

\* C31: every event the aggregator emits carries a state different from
\* the state it emitted before (all LEDs off at first), the latest state
\* fed before the closing marker of the window; when a window closes with
\* the latest state equal to the state emitted last, no event is emitted
\* and the next consumer only has its time advanced to the marker
C31_AggregatorEmits == []EmitsChanges /\ [][ClosesQuietly]_vars

\* a window has closed quietly at the marker after two events were emitted:
\* the state fed last was the state emitted last
C31_Witness ==
    /\ filter.kind = "aggr"
    /\ last.op = "advanceTime"
    /\ last.err = OK
    /\ Len(Emitted) = 2
    /\ Len(feed) = 3
    /\ feed[3].value = LastEmitted
    /\ feed[1].value # LastEmitted
    /\ feed[3].time > Emitted[2].time
    /\ filter.next.mLastTime = last.time
    /\ ~IsWindowOpen(filter)

\* ------------------------------------ claims about the steps of the display

\* the event of this step has been consumed by the display
SegConsumes == last'.op = "addEvent" /\ last'.err = OK

\* the event consumed in this step takes the clock from HIGH to LOW; the
\* level of the clock is the value of the last clock event consumed
ClockFalls ==
    /\ SegConsumes
    /\ last'.pin = clock_pin
    /\ display.mClockInput
    /\ last'.value = LOW

\* the levels the display keeps for the data pin and the clock pin are the
\* values of the last events consumed from these pins
LevelsFollowEvents ==
    /\ display'.mDataInput =
          IF SegConsumes /\ last'.pin = data_pin THEN last'.value = HIGH
          ELSE display.mDataInput
    /\ display'.mClockInput =
          IF SegConsumes /\ last'.pin = clock_pin THEN last'.value = HIGH
          ELSE display.mClockInput

\* the register changes on a falling edge of the clock only, by one bit
\* pushed at index 0, the level of the data pin
RegisterFollowsClock ==
    display'.mShiftRegister =
        IF ClockFalls
        THEN [i \in 1..16 |-> IF i = 1 THEN display.mDataInput
                              ELSE display.mShiftRegister[i - 1]]
        ELSE display.mShiftRegister

\* C32: the 16-bit shift register of the display changes only when an event
\* of the clock pin is a falling edge (the clock was HIGH, the event is
\* LOW), and then exactly one bit is pushed, the value of the most recent
\* event of the data pin (LOW if there was none); events of the data pin,
\* of the latch pin and clock events that are no falling edge leave the
\* register as it is
C32_ClockPushes == [][LevelsFollowEvents /\ RegisterFollowsClock]_vars

\* a falling edge of the clock has pushed a HIGH bit into a register that
\* held zeros only, after a data event and a rising clock
C32_Witness ==
    /\ last.op = "addEvent"
    /\ last.err = OK
    /\ last.pin = clock_pin
    /\ last.value = LOW
    /\ events = 3
    /\ display.mDataInput
    /\ ~display.mClockInput
    /\ display.mShiftRegister = [i \in 1..16 |-> i = 1]

\* the state the display decodes from a register: byte i is the glyph byte
\* (bits 8..15) if bit i of the digit-select byte (bits 0..7) is set, and
\* all ones otherwise
Decoded(reg) ==
    [k \in 0..31 |-> IF reg[(k \div 8) + 1] THEN reg[9 + (k % 8)] ELSE TRUE]

\* the event consumed in this step takes the latch from LOW to HIGH
LatchRises ==
    /\ SegConsumes
    /\ last'.pin = latch_pin
    /\ ~display.mLatch
    /\ last'.value = HIGH

\* the latch level the display keeps is the value of the last latch event
LatchFollowsEvents ==
    display'.mLatch =
        IF SegConsumes /\ last'.pin = latch_pin THEN last'.value = HIGH
        ELSE display.mLatch

\* an event is emitted on the sprout on a rising edge of the latch that
\* decodes a state other than the current one, with the time of the edge;
\* getState() changes then and only then
SproutFollowsLatch ==
    /\ display'.sprout.mEvents =
          IF LatchRises /\ Decoded(display.mShiftRegister) # display.mState
          THEN Append(display.sprout.mEvents,
                      [time |-> last'.time,
                       value |-> Decoded(display.mShiftRegister)])
          ELSE display.sprout.mEvents
    /\ display'.mState =
          IF LatchRises THEN Decoded(display.mShiftRegister)
          ELSE display.mState

\* consecutive events of the sprout carry different states, and the last
\* one carries the current state
SproutStatesDiffer ==
    LET out == display.sprout.mEvents
    IN /\ \A k \in 2..Len(out) : out[k].value # out[k - 1].value
       /\ out # <<>> => out[Len(out)].value = display.mState

\* C33: the display emits an event on its sprout only while it consumes a
\* rising edge of the latch and only when the state decoded differs from
\* its current state; consecutive sprout events carry different states,
\* the timestamp of each is the time of a rising edge of the latch, and
\* getState() changes at no other moment
C33_SproutOnLatch ==
    /\ [][LatchFollowsEvents /\ SproutFollowsLatch]_vars
    /\ []SproutStatesDiffer

\* a rising edge of the latch has decoded the state the display already
\* shows, after the first rising edge emitted it: one event on the sprout
C33_Witness ==
    /\ last.op = "addEvent"
    /\ last.err = OK
    /\ last.pin = latch_pin
    /\ ~last.latch
    /\ last.value = HIGH
    /\ events = 3
    /\ Len(display.sprout.mEvents) = 1
    /\ display.sprout.mEvents[1].time < last.time
    /\ display.mState = Decoded(display.mShiftRegister)
    /\ \E i \in 0..3 : StateByte(i) \notin {0, 255}

\* ------------------------------ claims about the display behind the emulator

\* C34: with the display attached to the data, clock and latch output pins
\* and the latch LOW, shiftOut(data, clock, MSBFIRST, glyph);
\* shiftOut(data, clock, MSBFIRST, mask); digitalWrite(latch, HIGH) leaves
\* byte i of the state of the display equal to glyph for every digit i in
\* 0..3 whose bit i of mask is set and 0xFF for the others, whatever the
\* register held before
C34_ShiftOutShows ==
    calls = 3 =>
        /\ last.err = OK
        /\ \A i \in 0..3 :
              StateByte(i) = IF (given.mask \div (2 ^ i)) % 2 = 1
                             THEN given.glyph ELSE 255

\* the three calls have shown a glyph that is no palindrome of bits on the
\* digits 0 and 2 only, over a register that held other bits before; the
\* display has consumed the 49 pin events and emitted its new state
C34_Witness ==
    /\ calls = 3
    /\ last.op = "digitalWrite"
    /\ last.err = OK
    /\ given = [glyph |-> 164, mask |-> 5]
    /\ events = 49
    /\ StateByte(0) = 164
    /\ StateByte(1) = 255
    /\ StateByte(2) = 164
    /\ Len(display.sprout.mEvents) = 1
    /\ display.sprout.mEvents[1].time = mCurrentTime - mPinWriteDelay

\* ------------------------------- claims about the delivery of stored events

\* how many of the events carry the given time and value
CountOf(evs, time, value) ==
    Cardinality({i \in 1..Len(evs) :
                    evs[i].time = time /\ evs[i].value = value})

\* C35: across any sequence of addFutureEvent, addEvent and advanceTime on
\* a future time series, every event stored in the series is delivered to
\* the next consumer exactly once: the next consumer has received no event
\* more often than the series stores it, and it has received every stored
\* event the series has passed
C35_DeliveredOnce ==
    /\ \A t \in 0..MaxT, v \in Values :
          CountOf(series.mEvents, t, v) <= CountOf(fts.mEvents, t, v)
    /\ \A k \in 1..fts.mLastConsumed :
          CountOf(series.mEvents, fts.mEvents[k].time, fts.mEvents[k].value) >=
          CountOf(SubSeq(fts.mEvents, 1, fts.mLastConsumed),
                  fts.mEvents[k].time, fts.mEvents[k].value)

\* ------------------------------------ claims about the filters settling

\* C36: the aggregator never loses a pending change: when the last event
\* fed is (t, S), once an advanceTime(T) with T >= t + W has been processed
\* the last state the aggregator has emitted (all LEDs off if it has emitted
\* nothing) is S
C36_AggregatorSettles ==
    (/\ feed # <<>>
     /\ last.op = "advanceTime"
     /\ last.err = OK
     /\ last.time >= feed[Len(feed)].time + filter.mTimeWindow) =>
        LastEmitted = feed[Len(feed)].value

\* the last call was an advanceTime that took the filter the given number
\* of windows, or further, past the time of the last event fed
SteadyFor(windows) ==
    /\ feed # <<>>
    /\ last.op = "advanceTime"
    /\ last.err = OK
    /\ last.time >= feed[Len(feed)].time + windows * filter.mTimeWindow

\* the last state emitted is the state of the last event fed, and it was
\* emitted no later than two windows after that event
EmittedSteadyState ==
    /\ LastEmitted = feed[Len(feed)].value
    /\ Emitted # <<>> =>
          Emitted[Len(Emitted)].time <=
              feed[Len(feed)].time + 2 * filter.mTimeWindow

RECURSIVE ChainOf(_)
ChainOf(n) ==
    IF n.kind \in {"demux", "aggr"} THEN <<n>> \o ChainOf(n.next) ELSE <<n>>

\* C38: for any sequence of addEvent, advanceTime and clear calls with
\* non-decreasing times on a demultiplexer, an aggregator or a
\* demultiplexer in front of an aggregator, the calls each filter makes on
\* its next consumer have non-decreasing times: a call fails only when its
\* own time is earlier than the time of the first filter, never further
\* down the chain; no consumer is ahead of the one before it, and the time
\* series stores its events in the order of their times
C38_NoFailureDownstream ==
    LET chain == ChainOf(filter)
    IN /\ last.err # OK =>
             (last.op # "clear" /\ last.time < filter.mLastTime)
       /\ \A k \in 2..Len(chain) : chain[k].mLastTime <= chain[k - 1].mLastTime
       /\ IsSortedByTime(chain[Len(chain)].mEvents)

\* a demultiplexer in front of an aggregator has been cleared at a time
\* after 0 and has then passed a new state down to the time series
C38_Witness ==
    /\ filter.kind = "demux"
    /\ filter.next.kind = "aggr"
    /\ last.op = "advanceTime"
    /\ last.err = OK
    /\ phases # <<>>
    /\ phases[1] > 0
    /\ filter.next.next.mEvents # <<>>
    /\ filter.next.next.mEvents[1].time > phases[1]
    /\ filter.next.next.mEvents[1].value # {}

\* ------------------------------- claims about input scheduled for a pin

\* C39: enqueuePinValueChange on a pin that is not registered with input
\* wiring fails on every call and leaves the input buffers of the
\* controller as they are: the last such call has failed, and no input
\* buffer holds an event for a pin that is not wired as input
C39_RejectsEveryCall ==
    /\ (/\ last.op = "enqueuePinValueChange"
        /\ mPins[last.pin].mWiring # INPUT) => last.err # OK
    /\ \A p \in DOMAIN mInputBuffers :
          mPins[p].mWiring # INPUT => mInputBuffers[p].mEvents = <<>>

\* ------------------------------------- claims about runLoopsForPeriod

\* the smallest integer that is at least a / b
CeilDiv(a, b) == (a + b - 1) \div b

\* runLoopsForPeriod is running with a loopDelay of at least 1
PeriodRuns ==
    /\ run.driver = "period"
    /\ run.pc # "idle"
    /\ run.loopDelay >= 1

\* the invocations of loop() the run still has to make if its callback
\* never returns false
IterationsLeft ==
    LET rest == run.endTime - mCurrentTime -
                    (IF run.pc = "body" THEN run.loopDelay ELSE 0)
    IN IF rest <= 0 THEN 0 ELSE CeilDiv(rest, run.loopDelay)

\* the run is not cut short by the bound on the invocations of loop()
Uncut == iters + IterationsLeft <= MaxIters

\* the invocations of loop() made by the run so far
Iterations ==
    Cardinality({k \in 1..Len(trace) : trace[k].what = "loop"})

\* the callback has returned false in the run
Stopped == \E k \in 1..Len(trace) : trace[k].what = "cb" /\ ~trace[k].ok

\* a run with a loopDelay of at least 1 has invoked loop() at most
\* ceil(period / loopDelay) times
FewIterations ==
    (run.driver = "period" /\ run.loopDelay >= 1) =>
        Iterations <= CeilDiv(run.arg, run.loopDelay)

\* a run that has returned while its callback never returned false has
\* taken the clock to the start time plus the period, or further
ReachesEnd ==
    (run.driver = "period" /\ run.pc = "idle" /\ ~Stopped) =>
        mCurrentTime >= run.start + run.arg

\* C40: runLoopsForPeriod(period, loopDelay, cb) with loopDelay >= 1 and a
\* loop body that returns always terminates, after at most
\* ceil(period / loopDelay) iterations; when it returns without cb having
\* returned false the current time is >= start time + period; the virtual
\* clock never decreases during the run
C40_PeriodTerminates ==
    /\ (PeriodRuns /\ Uncut) ~> (run.pc = "idle")
    /\ []FewIterations
    /\ []ReachesEnd
    /\ [][mCurrentTime' >= mCurrentTime]_vars

\* runLoopsForPeriod(3, 2) has returned after two invocations of loop(),
\* the callback having returned true twice, with the clock one microsecond
\* past the start time plus the period
C40_Witness ==
    /\ run.driver = "period"
    /\ run.pc = "idle"
    /\ run.arg = 3
    /\ run.loopDelay = 2
    /\ Iterations = 2
    /\ ~Stopped
    /\ mCurrentTime = run.start + 4
====
